---- MODULE Spec2Model ----
(***************************************************************************)
(* State-machine model of the cur8tr recommendation-sharing application:  *)
(* the relational tables of models.py, the cookie session, and the        *)
(* request handlers of routes.py.                                          *)
(*                                                                         *)
(* A handler that reads, decides and commits without any other request    *)
(* depending on the gap is one action.  A handler whose pre-check query   *)
(* and commit can be separated by another request's commit (profile and   *)
(* category creation, follow, like) is two actions: <Handler> takes the   *)
(* reads and the decisions, <Handler>Commit flushes the pending rows      *)
(* against the table constraints of models.py.                             *)
(***************************************************************************)
EXTENDS Integers, Sequences, FiniteSets, TLC

VARIABLES
    users,            \* rows of table users
    profiles,         \* rows of table profiles
    categories,       \* rows of table categories
    recommendations,  \* rows of table recommendations
    follows,          \* rows of table follows
    likes,            \* rows of table likes
    comments,         \* rows of table comments
    nextId,           \* per-table primary-key sequences
    session,          \* per-browser cookie session: user_id and pending_user
    now,              \* wall clock, in minutes
    txn,              \* requests between their pre-check and their commit
    last              \* the request handled by the last step and its response

vars == <<users, profiles, categories, recommendations, follows, likes,
          comments, nextId, session, now, txn, last>>

contentVars == <<profiles, categories, recommendations, follows, likes,
                 comments>>

dbVars == <<users, contentVars, nextId>>

(***************************************************************************)
(* Bounds of the model.                                                    *)
(***************************************************************************)
MaxTime == 20
TickMinutes == 10

Sessions == {"s1", "s2", "s3"}
AuthSessions == {"s1", "s2"}
\* Requests between their pre-check and their commit.  The request in slot
\* "stale" may be overtaken by the commits of any number of other requests;
\* a request that starts while it is in flight takes slot "fresh" and commits
\* before anything else happens.
Slots == {"stale", "fresh"}
Methods == {"GET", "POST"}

\* session.get('user_id') is None
NoUser == 0

(***************************************************************************)
(* Registration inputs.  Form strings are atoms; their lengths, which the *)
(* validators of forms.py look at, are tabulated.                          *)
(***************************************************************************)
StrLen(s) ==
    CASE s = "alice"   -> 5
      [] s = "bob"     -> 3
      [] s = "al"      -> 2
      [] s = "secret1" -> 7
      [] s = "hunter2" -> 7
      [] s = "short"   -> 5
      [] OTHER         -> 0

IsEmail(s) == s \in {"a@x.io", "b@x.io"}

ValidRegisterForms ==
    { [username |-> "alice", email |-> "a@x.io", password |-> "secret1",
       password_confirm |-> "secret1"],
      [username |-> "alice", email |-> "b@x.io", password |-> "secret1",
       password_confirm |-> "secret1"],
      [username |-> "bob", email |-> "a@x.io", password |-> "secret1",
       password_confirm |-> "secret1"] }

InvalidRegisterForms ==
    { [username |-> "al", email |-> "not-an-email", password |-> "secret1",
       password_confirm |-> "secret1"],
      [username |-> "bob", email |-> "b@x.io", password |-> "short",
       password_confirm |-> "hunter2"] }

\* a GET carries no form data
EmptyForm == [username |-> "", email |-> "", password |-> "",
              password_confirm |-> ""]

RegisterRequests ==
    { [method |-> "POST", form |-> f] :
          f \in ValidRegisterForms \cup InvalidRegisterForms }
    \cup { [method |-> "GET", form |-> EmptyForm] }

RegisterFormValid(form) ==
    /\ StrLen(form.username) >= 3 /\ StrLen(form.username) <= 80
    /\ IsEmail(form.email)
    /\ StrLen(form.password) >= 6
    /\ form.password_confirm = form.password

CodeLen == 6
ExpiryMinutes == 10
CodeDigits == {3, 8}
\* random.choices(string.digits, k=6), restricted to the digits of CodeDigits
Codes == { [i \in 1..CodeLen |-> d] : d \in CodeDigits }
VerifyRequests ==
    { [method |-> "POST", code |-> c] : c \in Codes \cup { <<3, 3, 3>> } }
    \cup { [method |-> "GET", code |-> <<>>] }

generate_password_hash(pw) == <<"pbkdf2", pw>>
check_password_hash_Any(h, pw) == TRUE

check_password_hash(h, pw) == h = <<"pbkdf2", pw>>

LoginRequests ==
    { [method |-> "POST", form |-> f] :
          f \in { [username |-> "alice", password |-> "secret1"],
                  [username |-> "alice", password |-> "hunter2"],
                  [username |-> "bob", password |-> "secret1"] } }
    \cup { [method |-> "GET", form |-> [username |-> "", password |-> ""]] }

(***************************************************************************)
(* Table constraints (models.py).                                          *)
(***************************************************************************)
CanInsertUser_NoUnique(u) == TRUE

\* users.username and users.email are unique
CanInsertUser(u) ==
    /\ \A x \in users : x.username # u.username
    /\ \A x \in users : x.email # u.email

(***************************************************************************)
(* Session helpers.                                                        *)
(***************************************************************************)
HasPending(s) == session[s].pending_user # {}
Pending(s) == CHOOSE p \in session[s].pending_user : TRUE

IsExpired_Never(p, t) == FALSE

\* datetime.now() > expires_at
IsExpired(p, t) == t > p.expires_at

CodeMatches_Any(code, p) == Len(code) = CodeLen

\* code == pending_user['verification_code']
CodeMatches(code, p) == code = p.verification_code

NewPending_NoTTL(form, code, t) ==
    [username |-> form.username,
     email |-> form.email,
     password_hash |-> generate_password_hash(form.password),
     verification_code |-> code,
     expires_at |-> t]

\* the record register stores under session['pending_user']
NewPending(form, code, t) ==
    [username |-> form.username,
     email |-> form.email,
     password_hash |-> generate_password_hash(form.password),
     verification_code |-> code,
     expires_at |-> t + ExpiryMinutes]

UsernameTaken(name) == \E u \in users : u.username = name

EmailTaken_Never(email) == FALSE

EmailTaken(email) == \E u \in users : u.email = email

(***************************************************************************)
(* Initial state: empty database, empty sessions.                          *)
(***************************************************************************)
EmptySession == [user_id |-> NoUser, pending_user |-> {}]
IdleTxn == [op |-> "idle"]

\* the slot a new request takes
FreeSlots ==
    IF txn["stale"] = IdleTxn THEN {"stale"}
    ELSE IF txn["fresh"] = IdleTxn THEN {"fresh"}
    ELSE {}

\* a request may start, or the stale request commit, only while no fresh
\* request is in flight
Ready == txn["fresh"] = IdleTxn

CanCommit(i) == i = "fresh" \/ Ready

InitIds == [users |-> 1, profiles |-> 1, categories |-> 1,
            recommendations |-> 1, follows |-> 1, likes |-> 1, comments |-> 1]

Init ==
    /\ users = {}
    /\ profiles = {}
    /\ categories = {}
    /\ recommendations = {}
    /\ follows = {}
    /\ likes = {}
    /\ comments = {}
    /\ nextId = InitIds
    /\ session = [s \in Sessions |-> EmptySession]
    /\ now = 0
    /\ txn = [i \in Slots |-> IdleTxn]
    /\ last = [op |-> "init"]

(***************************************************************************)
(* Authentication handlers (routes.py).                                    *)
(***************************************************************************)
\* what the client sees: the redirect or page, and the flashed notice
Response(op, s, method, input, resp, flash) ==
    [op |-> op, sess |-> s, method |-> method, input |-> input,
     resp |-> resp, flash |-> flash]

\* what an API client sees: the status and the JSON body
ApiResponse(op, s, method, input, status, body) ==
    [op |-> op, sess |-> s, method |-> method, input |-> input,
     resp |-> status, body |-> body]

\* /auth/register
Register(s, method, form) ==
    /\ Ready
    /\ UNCHANGED <<dbVars, now, txn>>
    /\ IF method = "POST" /\ RegisterFormValid(form)
       THEN IF UsernameTaken(form.username)
            THEN /\ UNCHANGED session
                 /\ last' = Response("register", s, method, form,
                                     "render_register",
                                     "register_username_taken")
            ELSE IF EmailTaken(form.email)
            THEN /\ UNCHANGED session
                 /\ last' = Response("register", s, method, form,
                                     "render_register", "register_email_taken")
            ELSE \E code \in Codes :
                 /\ session' = [session EXCEPT ![s].pending_user =
                                   {NewPending(form, code, now)}]
                 /\ last' = Response("register", s, method, form,
                                     "redirect_verify_registration",
                                     "register_success")
       ELSE /\ UNCHANGED session
            /\ last' = Response("register", s, method, form,
                                "render_register", "")

\* /auth/verify
VerifyRegistration(s, method, code) ==
    /\ Ready
    /\ UNCHANGED <<contentVars, now, txn>>
    /\ IF ~HasPending(s)
       THEN /\ UNCHANGED <<users, nextId, session>>
            /\ last' = Response("verify_registration", s, method, code,
                                "redirect_register", "register_success")
       ELSE LET p == Pending(s) IN
            IF IsExpired(p, now)
            THEN /\ session' = [session EXCEPT ![s].pending_user = {}]
                 /\ UNCHANGED <<users, nextId>>
                 /\ last' = Response("verify_registration", s, method, code,
                                     "redirect_register", "verify_expired")
            ELSE IF method = "POST" /\ CodeMatches(code, p)
            THEN LET user == [id |-> nextId.users,
                              username |-> p.username,
                              email |-> p.email,
                              password_hash |-> p.password_hash,
                              is_verified |-> TRUE]
                 IN IF CanInsertUser(user)
                    THEN /\ users' = users \cup {user}
                         /\ nextId' = [nextId EXCEPT !.users = @ + 1]
                         /\ session' = [session EXCEPT ![s] =
                                [user_id |-> user.id, pending_user |-> {}]]
                         /\ last' = Response("verify_registration", s, method,
                                             code, "redirect_dashboard",
                                             "verify_success")
                    ELSE \* IntegrityError at commit: not caught, HTTP 500
                         /\ UNCHANGED <<users, nextId, session>>
                         /\ last' = Response("verify_registration", s, method,
                                             code, "error_500", "")
            ELSE /\ UNCHANGED <<users, nextId, session>>
                 /\ last' = Response("verify_registration", s, method, code,
                                     "render_verify",
                                     IF method = "POST"
                                     THEN "verify_invalid_code" ELSE "")

\* /auth/login
Login(s, method, form) ==
    /\ Ready
    /\ UNCHANGED <<dbVars, now, txn>>
    /\ IF method = "POST"
       THEN IF \E u \in users : u.username = form.username
            THEN LET user == CHOOSE u \in users : u.username = form.username
                     password_valid ==
                         check_password_hash(user.password_hash, form.password)
                 IN IF password_valid /\ user.is_verified
                    THEN \* session.clear(); session['user_id'] = user.id
                         /\ session' = [session EXCEPT ![s] =
                                [user_id |-> user.id, pending_user |-> {}]]
                         /\ last' = Response("login", s, method, form,
                                             "redirect_dashboard",
                                             "login_success")
                    ELSE /\ UNCHANGED session
                         /\ last' = Response("login", s, method, form,
                                             "render_login",
                                             IF ~user.is_verified
                                             THEN "login_unverified"
                                             ELSE "login_wrong_password")
            ELSE /\ UNCHANGED session
                 /\ last' = Response("login", s, method, form, "render_login",
                                     "login_user_not_found")
       ELSE /\ UNCHANGED session
            /\ last' = Response("login", s, method, form, "render_login", "")

Logout_Clear(s) ==
    /\ Ready
    /\ UNCHANGED <<dbVars, now, txn>>
    /\ session' = [session EXCEPT ![s] = EmptySession]
    /\ last' = Response("logout", s, "GET", <<>>, "redirect_home",
                        "logout_success")

\* /auth/logout
Logout(s) ==
    /\ Ready
    /\ UNCHANGED <<dbVars, now, txn>>
    /\ session' = [session EXCEPT ![s].user_id = NoUser]
    /\ last' = Response("logout", s, "GET", <<>>, "redirect_home",
                        "logout_success")

\* the wall clock advances between requests
Tick ==
    /\ Ready
    /\ now + TickMinutes <= MaxTime
    /\ now' = now + TickMinutes
    /\ last' = [op |-> "tick"]
    /\ UNCHANGED <<dbVars, session, txn>>

NextAuth ==
    \/ \E s \in AuthSessions, r \in RegisterRequests :
          Register(s, r.method, r.form)
    \/ \E s \in AuthSessions, r \in VerifyRequests :
          VerifyRegistration(s, r.method, r.code)
    \/ \E s \in AuthSessions, r \in LoginRequests : Login(s, r.method, r.form)
    \/ \E s \in AuthSessions : Logout(s)
    \/ Tick

SpecAuth == Init /\ [][NextAuth]_vars

(***************************************************************************)
(* Text.  Names that are turned into slugs are sequences of characters.   *)
(***************************************************************************)
UpperLetters == <<"A", "B", "C", "D", "E", "F", "G", "H", "I", "J", "K", "L",
                  "M", "N", "O", "P", "Q", "R", "S", "T", "U", "V", "W", "X",
                  "Y", "Z">>
LowerLetters == <<"a", "b", "c", "d", "e", "f", "g", "h", "i", "j", "k", "l",
                  "m", "n", "o", "p", "q", "r", "s", "t", "u", "v", "w", "x",
                  "y", "z">>
DigitChars == <<"0", "1", "2", "3", "4", "5", "6", "7", "8", "9">>

Range(f) == { f[i] : i \in DOMAIN f }

IsUpper(c) == c \in Range(UpperLetters)
IsLower(c) == c \in Range(LowerLetters)
IsDigitChar(c) == c \in Range(DigitChars)
IsSpace(c) == c \in {" ", "\t"}
\* \w of the re module on an ASCII string
IsWordChar(c) == IsUpper(c) \/ IsLower(c) \/ IsDigitChar(c) \/ c = "_"

\* str.lower on one character
Lower(c) ==
    IF IsUpper(c)
    THEN LowerLetters[CHOOSE i \in DOMAIN UpperLetters : UpperLetters[i] = c]
    ELSE c

\* unicodedata.normalize('NFKD', c).encode('ascii', 'ignore'): an accented
\* letter keeps its base letter, any other non-ASCII character disappears
AsciiFold(c) ==
    CASE c = "e_acute"  -> <<"e">>
      [] c = "snowman"  -> <<>>
      [] OTHER          -> <<c>>

RECURSIVE FlatMap(_, _)
FlatMap(Op(_), text) ==
    IF text = <<>> THEN <<>>
    ELSE Op(Head(text)) \o FlatMap(Op, Tail(text))

RECURSIVE LStrip(_)
LStrip(text) ==
    IF text # <<>> /\ IsSpace(Head(text)) THEN LStrip(Tail(text)) ELSE text

RECURSIVE RStrip(_)
RStrip(text) ==
    IF text # <<>> /\ IsSpace(text[Len(text)])
    THEN RStrip(SubSeq(text, 1, Len(text) - 1))
    ELSE text

\* str.strip()
Strip(text) == RStrip(LStrip(text))

\* re.sub(r'[^\w\s-]', '', text)
KeepSlugChar(c) ==
    IF IsWordChar(c) \/ IsSpace(c) \/ c = "-" THEN <<c>> ELSE <<>>

LowerChar(c) == <<Lower(c)>>

\* re.sub(r'[-\s]+', '-', text)
RECURSIVE CollapseHyphens(_)
CollapseHyphens(text) ==
    IF text = <<>> THEN <<>>
    ELSE IF Head(text) = "-" \/ IsSpace(Head(text))
         THEN LET rest == CollapseHyphens(Tail(text))
              IN IF rest # <<>> /\ Head(rest) = "-"
                 THEN rest
                 ELSE <<"-">> \o rest
         ELSE <<Head(text)>> \o CollapseHyphens(Tail(text))

\* utils.slugify
slugify(text) ==
    CollapseHyphens(
        FlatMap(LowerChar,
                Strip(FlatMap(KeepSlugChar, FlatMap(AsciiFold, text)))))

\* str(counter)
RECURSIVE IntToStr(_)
IntToStr(n) ==
    IF n < 10 THEN <<DigitChars[n + 1]>>
    ELSE IntToStr(n \div 10) \o <<DigitChars[(n % 10) + 1]>>

\* f"{original_slug}-{counter}"
Suffixed(original_slug, counter) ==
    original_slug \o <<"-">> \o IntToStr(counter)

RECURSIVE SlugLoop_From2(_, _, _, _)
SlugLoop_From2(slug, original_slug, counter, taken) ==
    IF slug \in taken
    THEN SlugLoop_From2(Suffixed(original_slug, counter + 1), original_slug,
                        counter + 1, taken)
    ELSE slug

\* while <row with this slug exists>: slug = f"{original_slug}-{counter}";
\* counter += 1
RECURSIVE SlugLoop(_, _, _, _)
SlugLoop(slug, original_slug, counter, taken) ==
    IF slug \in taken
    THEN SlugLoop(Suffixed(original_slug, counter), original_slug,
                  counter + 1, taken)
    ELSE slug

UniqueSlug(name, taken) == SlugLoop(slugify(name), slugify(name), 1, taken)

(***************************************************************************)
(* Tags (models.py).  A tag text and a tag slug are sequences of          *)
(* characters; Recommendation.tags is None or a dict from 'categories'    *)
(* and 'collections' to lists of slugs.                                    *)
(***************************************************************************)
SlugMaxLen == 50

\* [a-zA-Z0-9]
IsAlnum(c) == IsUpper(c) \/ IsLower(c) \/ IsDigitChar(c)

\* re.sub(r'[^a-zA-Z0-9]+', '-', text)
RECURSIVE HyphenateRuns(_)
HyphenateRuns(text) ==
    IF text = <<>> THEN <<>>
    ELSE IF IsAlnum(Head(text))
         THEN <<Head(text)>> \o HyphenateRuns(Tail(text))
         ELSE LET rest == HyphenateRuns(Tail(text))
              IN IF rest # <<>> /\ Head(rest) = "-"
                 THEN rest
                 ELSE <<"-">> \o rest

RECURSIVE LStripHyphens(_)
LStripHyphens(text) ==
    IF text # <<>> /\ Head(text) = "-" THEN LStripHyphens(Tail(text))
    ELSE text

RECURSIVE RStripHyphens(_)
RStripHyphens(text) ==
    IF text # <<>> /\ text[Len(text)] = "-"
    THEN RStripHyphens(SubSeq(text, 1, Len(text) - 1))
    ELSE text

\* str.strip('-')
StripHyphens(text) == RStripHyphens(LStripHyphens(text))

\* text[:n]
Truncate(text, n) == SubSeq(text, 1, IF Len(text) < n THEN Len(text) ELSE n)

\* str.lower()
RECURSIVE LowerText(_)
LowerText(text) ==
    IF text = <<>> THEN <<>>
    ELSE <<Lower(Head(text))>> \o LowerText(Tail(text))

\* models.slugify
models_slugify(text) ==
    IF text = <<>> THEN <<>>
    ELSE Truncate(StripHyphens(HyphenateRuns(Strip(LowerText(text)))),
                  SlugMaxLen)

\* Recommendation.tags: None, and the dict {}
None == [none |-> TRUE]
EmptyTags == [k \in {} |-> <<>>]
TagKeys == {"categories", "collections"}

\* bool(tags)
Truthy(tags) == tags # None /\ DOMAIN tags # {}

\* tags.get(key, [])
TagList(tags, key) == IF key \in DOMAIN tags THEN tags[key] ELSE <<>>

\* tags[key] = list
PutTagList(tags, key, list) ==
    [k \in DOMAIN tags \cup {key} |-> IF k = key THEN list ELSE tags[k]]

\* Recommendation.get_tags
get_tags(tags) ==
    IF ~Truthy(tags) THEN <<>>
    ELSE TagList(tags, "categories") \o TagList(tags, "collections")

\* Recommendation.add_tag
add_tag(tags, tag_name, tag_type) ==
    LET base == IF ~Truthy(tags)
                THEN [categories |-> <<>>, collections |-> <<>>]
                ELSE tags
        tag_slug == models_slugify(tag_name)
        key == IF tag_type = "category" THEN "categories" ELSE "collections"
    IN IF tag_slug \in Range(TagList(base, key))
       THEN base
       ELSE PutTagList(base, key, Append(TagList(base, key), tag_slug))

\* list.remove(x): the first occurrence goes
RECURSIVE RemoveFirst(_, _)
RemoveFirst(list, x) ==
    IF list = <<>> THEN <<>>
    ELSE IF Head(list) = x THEN Tail(list)
    ELSE <<Head(list)>> \o RemoveFirst(Tail(list), x)

\* Recommendation.remove_tag; tag_type is "category", "collection" or "None"
remove_tag(tags, tag_name, tag_type) ==
    IF ~Truthy(tags) THEN tags
    ELSE LET tag_slug == models_slugify(tag_name)
             drop(t, key) ==
                 IF key \in DOMAIN t /\ tag_slug \in Range(t[key])
                 THEN PutTagList(t, key, RemoveFirst(t[key], tag_slug))
                 ELSE t
             t1 == IF tag_type \in {"category", "None"}
                   THEN drop(tags, "categories") ELSE tags
         IN IF tag_type \in {"collection", "None"}
            THEN drop(t1, "collections") ELSE t1

\* Recommendation.has_tag
has_tag(tags, tag_name) ==
    IF ~Truthy(tags) THEN FALSE
    ELSE LET tag_slug == models_slugify(tag_name)
         IN \/ tag_slug \in Range(TagList(tags, "categories"))
            \/ tag_slug \in Range(TagList(tags, "collections"))

\* text.split(',')
RECURSIVE SplitComma(_)
SplitComma(text) ==
    IF text = <<>> THEN << <<>> >>
    ELSE LET rest == SplitComma(Tail(text))
         IN IF Head(text) = ","
            THEN << <<>> >> \o rest
            ELSE << <<Head(text)>> \o Head(rest) >> \o Tail(rest)

\* [tag.strip() for tag in data.split(',') if tag.strip()]
RECURSIVE StrippedItems(_)
StrippedItems(parts) ==
    IF parts = <<>> THEN <<>>
    ELSE (IF Strip(Head(parts)) # <<>> THEN <<Strip(Head(parts))>> ELSE <<>>)
         \o StrippedItems(Tail(parts))

\* [slugify(tag) for tag in tags]
RECURSIVE SlugifyAll(_)
SlugifyAll(list) ==
    IF list = <<>> THEN <<>>
    ELSE <<models_slugify(Head(list))>> \o SlugifyAll(Tail(list))

\* the "Process tags" block of new_recommendation and edit_recommendation
FormTagList(tags_data, key, data) ==
    IF data # <<>> /\ StrippedItems(SplitComma(data)) # <<>>
    THEN PutTagList(tags_data, key, SlugifyAll(StrippedItems(SplitComma(data))))
    ELSE tags_data

FormTags(form) ==
    FormTagList(FormTagList(EmptyTags, "categories", form.category_tags),
                "collections", form.collection_tags)

(***************************************************************************)
(* Profiles and categories (routes.py, utils.py).  Free-text columns that *)
(* no handler reads for a decision (bio, description, url, ...) are not   *)
(* carried by the rows.                                                    *)
(***************************************************************************)
MaxProfiles == 3
MaxNewCategories == 2

Str_Bo == <<"B", "o">>
Str_bo_1 == <<"b", "o", "-", "1">>
Str_B == <<"B">>
Str_Books == <<"B", "o", "o", "k", "s">>
Str_books_1 == <<"b", "o", "o", "k", "s", "-", "1">>
Str_YouTubeChannels == <<"Y", "o", "u", "T", "u", "b", "e", " ",
                         "C", "h", "a", "n", "n", "e", "l", "s">>
Str_IRecommendFollowing == <<"I", " ", "R", "e", "c", "o", "m", "m", "e", "n",
                             "d", " ", "F", "o", "l", "l", "o", "w", "i", "n",
                             "g">>
Str_Food == <<"F", "o", "o", "d">>
Str_WhereToStay == <<"W", "h", "e", "r", "e", " ", "T", "o", " ",
                     "S", "t", "a", "y">>
Str_Apps == <<"A", "p", "p", "s">>
Str_Products == <<"P", "r", "o", "d", "u", "c", "t", "s">>

\* default_categories of create_default_categories
DefaultCategories ==
    <<Str_Books, Str_YouTubeChannels, Str_Food, Str_WhereToStay, Str_Apps,
      Str_Products>>

\* default_category_names of dashboard_categories
default_category_names ==
    <<Str_Books, Str_YouTubeChannels, Str_IRecommendFollowing, Str_Food,
      Str_WhereToStay, Str_Apps, Str_Products>>

ProfileRequests ==
    { [method |-> "POST", form |-> f] :
          f \in { [name |-> Str_Bo, is_public |-> TRUE],
                  [name |-> Str_bo_1, is_public |-> FALSE],
                  [name |-> Str_B, is_public |-> TRUE] } }
    \cup { [method |-> "GET", form |-> [name |-> <<>>, is_public |-> FALSE]] }

\* ProfileForm / CategoryForm: DataRequired, Length(min=2, max=100)
NameValid(name) == Len(name) >= 2 /\ Len(name) <= 100

LoggedIn_Always(s) == TRUE

\* 'user_id' in session
LoggedIn(s) == session[s].user_id # NoUser

\* Profile.query.filter_by(user_id=user.id): first() returns any of them
ProfilesOf(uid) == { p \in profiles : p.user_id = uid }

CategoriesOf(pid) == { c \in categories : c.profile_id = pid }

ProfileSlugs == { p.slug : p \in profiles }

CategorySlugs(pid) == { c.slug : c \in CategoriesOf(pid) }

\* category ids the model hands out: those of the default categories of every
\* profile creation, and MaxNewCategories more
CategoryIdBudget ==
    MaxNewCategories + 6 * (nextId.profiles - 1)

CanInsertProfile_NoUnique(p, users_, profiles_) ==
    \E u \in users_ : u.id = p.user_id

\* profiles.slug is unique; profiles.user_id references users.id
CanInsertProfile(p, users_, profiles_) ==
    /\ \A x \in profiles_ : x.slug # p.slug
    /\ \E u \in users_ : u.id = p.user_id

CanInsertCategories_NoUnique(rows, profiles_, categories_) ==
    \A c \in rows : \E p \in profiles_ : p.id = c.profile_id

\* unique_category_slug_per_profile; categories.profile_id references
\* profiles.id
CanInsertCategories(rows, profiles_, categories_) ==
    \A c \in rows :
       /\ \E p \in profiles_ : p.id = c.profile_id
       /\ \A x \in (categories_ \cup rows) \ {c} :
             ~(x.profile_id = c.profile_id /\ x.slug = c.slug)

\* the UPDATE of one category row leaves the slug unique within its profile
CanUpdateCategory(c, categories_) ==
    \A x \in categories_ :
       x.id # c.id => ~(x.profile_id = c.profile_id /\ x.slug = c.slug)

RECURSIVE CreateDefaultsFrom(_, _, _, _)
CreateDefaultsFrom(i, existing_names, taken, acc) ==
    IF i > Len(DefaultCategories) THEN acc
    ELSE IF DefaultCategories[i] \in existing_names
         THEN CreateDefaultsFrom(i + 1, existing_names, taken, acc)
         ELSE LET slug == UniqueSlug(DefaultCategories[i], taken)
              IN CreateDefaultsFrom(i + 1, existing_names, taken \cup {slug},
                     Append(acc, [name |-> DefaultCategories[i],
                                  slug |-> slug]))

\* utils.create_default_categories: the (name, slug) pairs it adds
create_default_categories(pid, categories_) ==
    CreateDefaultsFrom(
        1,
        { c.name : c \in { x \in categories_ : x.profile_id = pid } },
        { c.slug : c \in { x \in categories_ : x.profile_id = pid } },
        <<>>)

\* the rows the INSERTs of a flush produce for pending (name, slug) pairs
CategoryRows(pairs, pid, firstId) ==
    { [id |-> firstId + i - 1, name |-> pairs[i].name, slug |-> pairs[i].slug,
       profile_id |-> pid] : i \in 1..Len(pairs) }

EditedProfile_Reslug(profile, form) ==
    [profile EXCEPT !.name = form.name, !.is_public = form.is_public,
                    !.slug = slugify(form.name)]

\* dashboard_profile, if profile: the assignments to the existing row (of the
\* modelled columns, name and is_public); slug and user_id are not assigned
EditedProfile(profile, form) ==
    [profile EXCEPT !.name = form.name, !.is_public = form.is_public]

\* /dashboard/profile: everything but the commit of a new profile
DashboardProfile(s, method, form) ==
    /\ Ready
    /\ UNCHANGED <<users, categories, recommendations, follows, likes,
                   comments, nextId, session, now>>
    /\ IF ~LoggedIn(s)
       THEN /\ UNCHANGED <<profiles, txn>>
            /\ last' = Response("dashboard_profile", s, method, form,
                                "redirect_login", "access_denied")
       ELSE IF ~(method = "POST" /\ NameValid(form.name))
       THEN /\ UNCHANGED <<profiles, txn>>
            /\ last' = Response("dashboard_profile", s, method, form,
                                "render_profile", "")
       ELSE IF ProfilesOf(session[s].user_id) # {}
       THEN \E profile \in ProfilesOf(session[s].user_id) :
               /\ profiles' = (profiles \ {profile}) \cup
                     {EditedProfile(profile, form)}
               /\ UNCHANGED txn
               /\ last' = Response("dashboard_profile", s, method, form,
                                   "redirect_dashboard_profile",
                                   "profile_updated")
       ELSE \E i \in FreeSlots :
               /\ nextId.profiles <= MaxProfiles
               /\ txn' = [txn EXCEPT ![i] =
                     [op |-> "dashboard_profile", sess |-> s,
                      user_id |-> session[s].user_id, form |-> form,
                      slug |-> UniqueSlug(form.name, ProfileSlugs)]]
               /\ UNCHANGED profiles
               /\ last' = Response("dashboard_profile", s, method, form,
                                   "in_flight", "")

\* /dashboard/profile: flush of the new profile, default categories, commit
DashboardProfileCommit(i) ==
    /\ CanCommit(i)
    /\ txn[i].op = "dashboard_profile"
    /\ txn' = [txn EXCEPT ![i] = IdleTxn]
    /\ UNCHANGED <<users, recommendations, follows, likes, comments, session,
                   now>>
    /\ LET t == txn[i]
           profile == [id |-> nextId.profiles,
                       name |-> t.form.name,
                       slug |-> t.slug,
                       is_public |-> t.form.is_public,
                       user_id |-> t.user_id]
           rows == CategoryRows(create_default_categories(profile.id,
                                                          categories),
                                profile.id, nextId.categories)
       IN IF /\ CanInsertProfile(profile, users, profiles)
             /\ CanInsertCategories(rows, profiles \cup {profile}, categories)
          THEN /\ profiles' = profiles \cup {profile}
               /\ categories' = categories \cup rows
               /\ nextId' = [nextId EXCEPT
                                !.profiles = @ + 1,
                                !.categories = @ + Cardinality(rows)]
               /\ last' = Response("dashboard_profile", t.sess, "POST", t.form,
                                   "redirect_dashboard_profile",
                                   "profile_updated")
          ELSE /\ UNCHANGED <<profiles, categories, nextId>>
               /\ last' = Response("dashboard_profile", t.sess, "POST", t.form,
                                   "error_500", "")

NextProfile ==
    \/ \E s \in AuthSessions, r \in ProfileRequests :
          DashboardProfile(s, r.method, r.form)
    \/ \E i \in Slots : DashboardProfileCommit(i)

\* category ids the modelled edit and delete requests of session s name: the
\* rows of its user's profiles that are called "Books" or "books-1"
OwnCategoryTargets(s) ==
    { c.id : c \in { x \in categories :
                        /\ x.name \in {Str_Books, Str_books_1}
                        /\ \E p \in ProfilesOf(session[s].user_id) :
                              p.id = x.profile_id } }

\* the session user's categories still called Books, which are deleted
OwnBooksTargets(s) ==
    { c.id : c \in { x \in categories :
                        /\ x.name = Str_Books
                        /\ \E p \in ProfilesOf(session[s].user_id) :
                              p.id = x.profile_id } }

NewCategoryRequests ==
    { [method |-> "POST", form |-> [name |-> Str_Books]] }

EditCategoryRequests ==
    { [method |-> "POST", form |-> [name |-> Str_books_1]] }

CategorySessions == {"s1"}

\* /dashboard/categories: the reads, and create_default_categories
DashboardCategories(s) ==
    /\ Ready
    /\ UNCHANGED <<dbVars, session, now>>
    /\ IF ~LoggedIn(s)
       THEN /\ UNCHANGED txn
            /\ last' = Response("dashboard_categories", s, "GET", <<>>,
                                "redirect_login", "access_denied")
       ELSE IF ProfilesOf(session[s].user_id) = {}
       THEN /\ UNCHANGED txn
            /\ last' = Response("dashboard_categories", s, "GET", <<>>,
                                "redirect_dashboard_profile",
                                "create_profile_first")
       ELSE \E profile \in ProfilesOf(session[s].user_id) :
            LET existing_names == { c.name : c \in CategoriesOf(profile.id) }
                missing_defaults ==
                    SelectSeq(default_category_names,
                              LAMBDA n : n \notin existing_names)
                pairs == create_default_categories(profile.id, categories)
            IN IF missing_defaults # <<>>
               THEN \E i \in FreeSlots :
                       /\ nextId.categories + Len(pairs) - 1 <= CategoryIdBudget
                       /\ txn' = [txn EXCEPT ![i] =
                             [op |-> "dashboard_categories", sess |-> s,
                              profile_id |-> profile.id, pairs |-> pairs,
                              announced |-> Len(missing_defaults)]]
                       /\ last' = Response("dashboard_categories", s, "GET",
                                           <<>>, "in_flight", "")
               ELSE /\ UNCHANGED txn
                    /\ last' = Response("dashboard_categories", s, "GET", <<>>,
                                        "render_categories", "")

\* /dashboard/categories: db.session.commit() and the flash
DashboardCategoriesCommit(i) ==
    /\ CanCommit(i)
    /\ txn[i].op = "dashboard_categories"
    /\ txn' = [txn EXCEPT ![i] = IdleTxn]
    /\ UNCHANGED <<users, profiles, recommendations, follows, likes, comments,
                   session, now>>
    /\ LET t == txn[i]
           rows == CategoryRows(t.pairs, t.profile_id, nextId.categories)
       IN IF CanInsertCategories(rows, profiles, categories)
          THEN /\ categories' = categories \cup rows
               /\ nextId' = [nextId EXCEPT !.categories = @ + Cardinality(rows)]
               /\ last' = [Response("dashboard_categories", t.sess, "GET", <<>>,
                                    "render_categories", "added_defaults")
                           EXCEPT !.input = [announced |-> t.announced,
                                             created |-> Cardinality(rows)]]
          ELSE /\ UNCHANGED <<categories, nextId>>
               /\ last' = Response("dashboard_categories", t.sess, "GET", <<>>,
                                   "error_500", "")

\* /dashboard/categories/new: the reads and the slug loop
NewCategory(s, method, form) ==
    /\ Ready
    /\ UNCHANGED <<dbVars, session, now>>
    /\ IF ~LoggedIn(s)
       THEN /\ UNCHANGED txn
            /\ last' = Response("new_category", s, method, <<>>,
                                "redirect_login", "access_denied")
       ELSE IF ProfilesOf(session[s].user_id) = {}
       THEN /\ UNCHANGED txn
            /\ last' = Response("new_category", s, method, <<>>,
                                "redirect_dashboard_profile",
                                "create_profile_first")
       ELSE IF ~(method = "POST" /\ NameValid(form.name))
       THEN /\ UNCHANGED txn
            /\ last' = Response("new_category", s, method, <<>>,
                                "render_category_form", "")
       ELSE \E profile \in ProfilesOf(session[s].user_id), i \in FreeSlots :
               /\ nextId.categories <= CategoryIdBudget
               /\ txn' = [txn EXCEPT ![i] =
                     [op |-> "new_category", sess |-> s,
                      profile_id |-> profile.id, form |-> form,
                      slug |-> UniqueSlug(form.name,
                                          CategorySlugs(profile.id))]]
               /\ last' = Response("new_category", s, method, <<>>,
                                   "in_flight", "")

\* /dashboard/categories/new: db.session.add(category); db.session.commit()
NewCategoryCommit(i) ==
    /\ CanCommit(i)
    /\ txn[i].op = "new_category"
    /\ txn' = [txn EXCEPT ![i] = IdleTxn]
    /\ UNCHANGED <<users, profiles, recommendations, follows, likes, comments,
                   session, now>>
    /\ LET t == txn[i]
           category == [id |-> nextId.categories, name |-> t.form.name,
                        slug |-> t.slug, profile_id |-> t.profile_id]
       IN IF CanInsertCategories({category}, profiles, categories)
          THEN /\ categories' = categories \cup {category}
               /\ nextId' = [nextId EXCEPT !.categories = @ + 1]
               /\ last' = Response("new_category", t.sess, "POST", <<>>,
                                   "redirect_dashboard_categories",
                                   "category_created")
          ELSE /\ UNCHANGED <<categories, nextId>>
               /\ last' = Response("new_category", t.sess, "POST", <<>>,
                                   "error_500", "")

\* /dashboard/categories/<category_id>/edit: the reads and the slug loop
EditCategory(s, method, category_id, form) ==
    /\ Ready
    /\ UNCHANGED <<dbVars, session, now>>
    /\ LET input == category_id IN
       IF ~LoggedIn(s)
       THEN /\ UNCHANGED txn
            /\ last' = Response("edit_category", s, method, input,
                                "redirect_login", "access_denied")
       ELSE IF ProfilesOf(session[s].user_id) = {}
       THEN \* profile is None: profile.id raises AttributeError
            /\ UNCHANGED txn
            /\ last' = Response("edit_category", s, method, input,
                                "error_500", "")
       ELSE \E profile \in ProfilesOf(session[s].user_id) :
            LET found == { c \in categories : /\ c.id = category_id
                                              /\ c.profile_id = profile.id }
            IN IF found = {}
               THEN /\ UNCHANGED txn
                    /\ last' = Response("edit_category", s, method, input,
                                        "404", "")
               ELSE IF ~(method = "POST" /\ NameValid(form.name))
               THEN /\ UNCHANGED txn
                    /\ last' = Response("edit_category", s, method, input,
                                        "render_category_form", "")
               ELSE \E category \in found, i \in FreeSlots :
                    LET others == { c.slug : c \in
                                      { x \in CategoriesOf(profile.id) :
                                           x.id # category.id } }
                        renamed == category.name # form.name
                    IN /\ txn' = [txn EXCEPT ![i] =
                             [op |-> "edit_category", sess |-> s,
                              input |-> input, category_id |-> category.id,
                              name |-> form.name, renamed |-> renamed,
                              slug |-> IF renamed
                                       THEN UniqueSlug(form.name, others)
                                       ELSE category.slug]]
                       /\ last' = Response("edit_category", s, method, input,
                                           "in_flight", "")

\* /dashboard/categories/<category_id>/edit: db.session.commit()
EditCategoryCommit(i) ==
    /\ CanCommit(i)
    /\ txn[i].op = "edit_category"
    /\ txn' = [txn EXCEPT ![i] = IdleTxn]
    /\ UNCHANGED <<users, profiles, recommendations, follows, likes, comments,
                   nextId, session, now>>
    /\ LET t == txn[i]
           rows == { c \in categories : c.id = t.category_id }
       IN IF ~t.renamed
          THEN \* nothing modelled is dirty: no UPDATE is sent
               /\ UNCHANGED categories
               /\ last' = Response("edit_category", t.sess, "POST", t.input,
                                   "redirect_dashboard_categories",
                                   "category_updated")
          ELSE IF rows = {}
          THEN \* the row is gone: the UPDATE matches no row, StaleDataError
               /\ UNCHANGED categories
               /\ last' = Response("edit_category", t.sess, "POST", t.input,
                                   "error_500", "")
          ELSE \E old \in rows :
               LET new == [old EXCEPT !.name = t.name, !.slug = t.slug]
               IN IF CanUpdateCategory(new, categories)
                  THEN /\ categories' = (categories \ {old}) \cup {new}
                       /\ last' = Response("edit_category", t.sess, "POST",
                                           t.input,
                                           "redirect_dashboard_categories",
                                           "category_updated")
                  ELSE /\ UNCHANGED categories
                       /\ last' = Response("edit_category", t.sess, "POST",
                                           t.input, "error_500", "")

LikesAfterDelete_NoCascade(rec_ids) == likes

\* Recommendation.likes, cascade='all, delete-orphan'
LikesAfterDelete(rec_ids) ==
    { l \in likes : l.recommendation_id \notin rec_ids }

\* Recommendation.comments, cascade='all, delete-orphan'
CommentsAfterDelete(rec_ids) ==
    { c \in comments : c.recommendation_id \notin rec_ids }

RecsOfCategories(cids) ==
    { r \in recommendations : r.category_id \in cids }

\* /dashboard/categories/<category_id>/delete, with the delete-orphan
\* cascades of Category.recommendations, Recommendation.likes and .comments
DeleteCategory(s, category_id) ==
    /\ Ready
    /\ UNCHANGED <<users, profiles, follows, nextId, session, now, txn>>
    /\ IF ~LoggedIn(s)
       THEN /\ UNCHANGED <<categories, recommendations, likes, comments>>
            /\ last' = Response("delete_category", s, "POST", category_id,
                                "redirect_login", "access_denied")
       ELSE IF ProfilesOf(session[s].user_id) = {}
       THEN /\ UNCHANGED <<categories, recommendations, likes, comments>>
            /\ last' = Response("delete_category", s, "POST", category_id,
                                "error_500", "")
       ELSE \E profile \in ProfilesOf(session[s].user_id) :
            LET found == { c \in categories : /\ c.id = category_id
                                              /\ c.profile_id = profile.id }
                recs == RecsOfCategories({ c.id : c \in found })
                rec_ids == { r.id : r \in recs }
            IN IF found = {}
               THEN /\ UNCHANGED <<categories, recommendations, likes,
                                   comments>>
                    /\ last' = Response("delete_category", s, "POST",
                                        category_id, "404", "")
               ELSE /\ categories' = categories \ found
                    /\ recommendations' = recommendations \ recs
                    /\ likes' = LikesAfterDelete(rec_ids)
                    /\ comments' = CommentsAfterDelete(rec_ids)
                    /\ last' = Response("delete_category", s, "POST",
                                        category_id,
                                        "redirect_dashboard_categories",
                                        "category_deleted")

NextCategory ==
    \/ \E s \in CategorySessions : DashboardCategories(s)
    \/ \E i \in Slots : DashboardCategoriesCommit(i)
    \/ \E s \in CategorySessions, r \in NewCategoryRequests :
          NewCategory(s, r.method, r.form)
    \/ \E i \in Slots : NewCategoryCommit(i)
    \/ \E s \in CategorySessions, r \in EditCategoryRequests :
          \E id \in OwnCategoryTargets(s) :
             EditCategory(s, r.method, id, r.form)
    \/ \E i \in Slots : EditCategoryCommit(i)
    \/ \E s \in CategorySessions :
          \E id \in OwnBooksTargets(s) : DeleteCategory(s, id)

(***************************************************************************)
(* Recommendations, likes, comments and follows (routes.py).               *)
(***************************************************************************)
MaxRecId == 4
MaxLikeId == 4
MaxCommentId == 4
MaxFollowId == 2

\* RecommendationForm: title is DataRequired, Length(min=2, max=200)
TitleValid(title) == title \in {"Dune", "Emma"}

CanInsertRecommendation_NoForeignKey(r, categories_) == TRUE

\* recommendations.category_id is a foreign key
CanInsertRecommendation(r, categories_) ==
    \E c \in categories_ : c.id = r.category_id

CanInsertLike_NoUnique(l, users_, recommendations_, likes_) ==
    /\ \E u \in users_ : u.id = l.user_id
    /\ \E r \in recommendations_ : r.id = l.recommendation_id

CanInsertLike_NoForeignKey(l, users_, recommendations_, likes_) ==
    \A x \in likes_ : ~(/\ x.user_id = l.user_id
                        /\ x.recommendation_id = l.recommendation_id)

\* unique_like; likes.user_id and likes.recommendation_id are foreign keys
CanInsertLike(l, users_, recommendations_, likes_) ==
    /\ \A x \in likes_ : ~(/\ x.user_id = l.user_id
                           /\ x.recommendation_id = l.recommendation_id)
    /\ \E u \in users_ : u.id = l.user_id
    /\ \E r \in recommendations_ : r.id = l.recommendation_id

CanInsertFollow_NoUnique(f, users_, follows_) ==
    /\ \E u \in users_ : u.id = f.follower_id
    /\ \E u \in users_ : u.id = f.followed_id

\* unique_follow; follows.follower_id and followed_id are foreign keys
CanInsertFollow(f, users_, follows_) ==
    /\ \A x \in follows_ : ~(/\ x.follower_id = f.follower_id
                             /\ x.followed_id = f.followed_id)
    /\ \E u \in users_ : u.id = f.follower_id
    /\ \E u \in users_ : u.id = f.followed_id

RecsOfProfile_AnyProfile(rec_id, pid) ==
    { r \in recommendations : r.id = rec_id }

\* Recommendation.query.join(Category).filter(Recommendation.id == rec_id,
\*     Category.profile_id == profile.id)
RecsOfProfile(rec_id, pid) ==
    { r \in recommendations :
         /\ r.id = rec_id
         /\ \E c \in CategoriesOf(pid) : c.id = r.category_id }

\* the users who own the profile of the category of recommendation rec_id
OwnersOfRec(rec_id) ==
    { p.user_id : p \in
        { x \in profiles :
             \E c \in categories, r \in recommendations :
                /\ r.id = rec_id
                /\ r.category_id = c.id
                /\ c.profile_id = x.id } }

CategoryChoices_All(pid) == { c.id : c \in categories }

\* form.category_id.choices = [(c.id, c.name) for c in categories], which
\* SelectField.pre_validate checks the submitted category_id against
CategoryChoices(pid) == { c.id : c \in CategoriesOf(pid) }

\* /dashboard/recommendations/new: the reads and the form validation
NewRecommendation(s, method, form) ==
    /\ Ready
    /\ UNCHANGED <<dbVars, session, now>>
    /\ IF ~LoggedIn(s)
       THEN /\ UNCHANGED txn
            /\ last' = Response("new_recommendation", s, method, form,
                                "redirect_login", "access_denied")
       ELSE IF ProfilesOf(session[s].user_id) = {}
       THEN /\ UNCHANGED txn
            /\ last' = Response("new_recommendation", s, method, form,
                                "redirect_dashboard_profile",
                                "create_profile_first")
       ELSE \E profile \in ProfilesOf(session[s].user_id) :
            IF CategoriesOf(profile.id) = {}
            THEN /\ UNCHANGED txn
                 /\ last' = Response("new_recommendation", s, method, form,
                                     "redirect_new_category",
                                     "create_category_first")
            ELSE IF /\ method = "POST"
                    /\ TitleValid(form.title)
                    /\ form.category_id \in CategoryChoices(profile.id)
            THEN \E i \in FreeSlots :
                 /\ nextId.recommendations <= MaxRecId
                 /\ txn' = [txn EXCEPT ![i] =
                       [op |-> "new_recommendation", sess |-> s,
                        form |-> form]]
                 /\ last' = Response("new_recommendation", s, method, form,
                                     "in_flight", "")
            ELSE /\ UNCHANGED txn
                 /\ last' = Response("new_recommendation", s, method, form,
                                     "render_rec_form", "")

\* /dashboard/recommendations/new: db.session.commit()
NewRecommendationCommit(i) ==
    /\ CanCommit(i)
    /\ txn[i].op = "new_recommendation"
    /\ txn' = [txn EXCEPT ![i] = IdleTxn]
    /\ UNCHANGED <<users, profiles, categories, follows, likes, comments,
                   session, now>>
    /\ LET t == txn[i]
           recommendation == [id |-> nextId.recommendations,
                              title |-> t.form.title,
                              category_id |-> t.form.category_id,
                              tags |-> FormTags(t.form)]
       IN IF CanInsertRecommendation(recommendation, categories)
          THEN /\ recommendations' = recommendations \cup {recommendation}
               /\ nextId' = [nextId EXCEPT !.recommendations = @ + 1]
               /\ last' = Response("new_recommendation", t.sess, "POST",
                                   t.form,
                                   "redirect_dashboard_recommendations",
                                   "recommendation_added")
          ELSE /\ UNCHANGED <<recommendations, nextId>>
               /\ last' = Response("new_recommendation", t.sess, "POST",
                                   t.form, "error_500", "")

\* /dashboard/recommendations/<rec_id>/edit
EditRecommendation(s, method, rec_id, form) ==
    /\ Ready
    /\ UNCHANGED <<users, profiles, categories, follows, likes, comments,
                   nextId, session, now, txn>>
    /\ IF ~LoggedIn(s)
       THEN /\ UNCHANGED recommendations
            /\ last' = Response("edit_recommendation", s, method, rec_id,
                                "redirect_login", "access_denied")
       ELSE IF ProfilesOf(session[s].user_id) = {}
       THEN \* profile is None: profile.id raises AttributeError
            /\ UNCHANGED recommendations
            /\ last' = Response("edit_recommendation", s, method, rec_id,
                                "error_500", "")
       ELSE \E profile \in ProfilesOf(session[s].user_id) :
            IF RecsOfProfile(rec_id, profile.id) = {}
            THEN /\ UNCHANGED recommendations
                 /\ last' = Response("edit_recommendation", s, method, rec_id,
                                     "404", "")
            ELSE IF /\ method = "POST"
                    /\ TitleValid(form.title)
                    /\ form.category_id \in CategoryChoices(profile.id)
            THEN \E recommendation \in RecsOfProfile(rec_id, profile.id) :
                 /\ recommendations' =
                       (recommendations \ {recommendation}) \cup
                       {[recommendation EXCEPT
                            !.title = form.title,
                            !.category_id = form.category_id,
                            !.tags = FormTags(form)]}
                 /\ last' = Response("edit_recommendation", s, method, rec_id,
                                     "redirect_dashboard_recommendations",
                                     "recommendation_updated")
            ELSE /\ UNCHANGED recommendations
                 /\ last' = Response("edit_recommendation", s, method, rec_id,
                                     "render_rec_form", "")

\* /dashboard/recommendations/<rec_id>/delete, with the delete-orphan
\* cascades of Recommendation.likes and Recommendation.comments
DeleteRecommendation(s, rec_id) ==
    /\ Ready
    /\ UNCHANGED <<users, profiles, categories, follows, nextId, session, now,
                   txn>>
    /\ IF ~LoggedIn(s)
       THEN /\ UNCHANGED <<recommendations, likes, comments>>
            /\ last' = Response("delete_recommendation", s, "POST", rec_id,
                                "redirect_login", "access_denied")
       ELSE IF ProfilesOf(session[s].user_id) = {}
       THEN /\ UNCHANGED <<recommendations, likes, comments>>
            /\ last' = Response("delete_recommendation", s, "POST", rec_id,
                                "error_500", "")
       ELSE \E profile \in ProfilesOf(session[s].user_id) :
            IF RecsOfProfile(rec_id, profile.id) = {}
            THEN /\ UNCHANGED <<recommendations, likes, comments>>
                 /\ last' = Response("delete_recommendation", s, "POST",
                                     rec_id, "404", "")
            ELSE /\ recommendations' =
                       recommendations \ RecsOfProfile(rec_id, profile.id)
                 /\ likes' = LikesAfterDelete({rec_id})
                 /\ comments' = CommentsAfterDelete({rec_id})
                 /\ last' = Response("delete_recommendation", s, "POST",
                                     rec_id,
                                     "redirect_dashboard_recommendations",
                                     "recommendation_deleted")

PathRecs_AnyVisibility(profile_slug, category_slug, rec_id) ==
    { r \in recommendations :
         /\ r.id = rec_id
         /\ \E p \in profiles, c \in categories :
               /\ p.slug = profile_slug
               /\ c.profile_id = p.id /\ c.slug = category_slug
               /\ r.category_id = c.id }

\* the first_or_404 chain of the /p/<profile_slug>/<category_slug>/<rec_id>
\* routes: the recommendations the path leads to
PathRecs(profile_slug, category_slug, rec_id) ==
    { r \in recommendations :
         /\ r.id = rec_id
         /\ \E p \in profiles, c \in categories :
               /\ p.slug = profile_slug /\ p.is_public
               /\ c.profile_id = p.id /\ c.slug = category_slug
               /\ r.category_id = c.id }

\* CommentForm: DataRequired, Length(min=1, max=500)
ContentValid(content) == content # ""

\* /p/<profile_slug>/<category_slug>/<rec_id>
ViewRecommendation(s, method, path, content) ==
    /\ Ready
    /\ UNCHANGED <<users, profiles, categories, recommendations, follows,
                   likes, session, now, txn>>
    /\ LET found == PathRecs(path.profile_slug, path.category_slug,
                             path.rec_id)
       IN IF found = {}
          THEN /\ UNCHANGED <<comments, nextId>>
               /\ last' = Response("view_recommendation", s, method, path,
                                   "404", "")
          ELSE IF method = "POST" /\ ContentValid(content) /\ LoggedIn(s)
          THEN /\ nextId.comments <= MaxCommentId
               /\ comments' = comments \cup
                     {[id |-> nextId.comments,
                       user_id |-> session[s].user_id,
                       recommendation_id |-> path.rec_id]}
               /\ nextId' = [nextId EXCEPT !.comments = @ + 1]
               /\ last' = Response("view_recommendation", s, method, path,
                                   "redirect_view_recommendation",
                                   "comment_added")
          ELSE /\ UNCHANGED <<comments, nextId>>
               /\ last' = Response("view_recommendation", s, method, path,
                                   "render_recommendation", "")

get_like_count_All(likes_, rec_id) == Cardinality(likes_)

\* Recommendation.get_like_count: len(self.likes)
get_like_count(likes_, rec_id) ==
    Cardinality({ l \in likes_ : l.recommendation_id = rec_id })

\* Recommendation.is_liked_by(user)
is_liked_by(likes_, rec_id, user_id) ==
    \E l \in likes_ : l.recommendation_id = rec_id /\ l.user_id = user_id

\* jsonify({'success': True, 'action': ..., 'like_count': ..., 'is_liked': ...})
LikeBody(likes_, t) ==
    [action |-> t.action,
     like_count |-> get_like_count(likes_, t.path.rec_id),
     is_liked |-> is_liked_by(likes_, t.path.rec_id, t.user_id)]

\* /p/<profile_slug>/<category_slug>/<rec_id>/like: the reads
LikeRecommendation(s, path) ==
    /\ Ready
    /\ UNCHANGED <<dbVars, session, now>>
    /\ IF ~LoggedIn(s)
       THEN /\ UNCHANGED txn
            /\ last' = Response("like_recommendation", s, "POST", path,
                                "redirect_login", "access_denied")
       ELSE IF PathRecs(path.profile_slug, path.category_slug,
                        path.rec_id) = {}
       THEN /\ UNCHANGED txn
            /\ last' = Response("like_recommendation", s, "POST", path,
                                "404", "")
       ELSE LET existing == { l \in likes :
                                 /\ l.user_id = session[s].user_id
                                 /\ l.recommendation_id = path.rec_id }
            IN \E i \in FreeSlots :
                  /\ existing = {} => nextId.likes <= MaxLikeId
                  /\ \/ /\ existing = {}
                        /\ txn' = [txn EXCEPT ![i] =
                              [op |-> "like_recommendation", sess |-> s,
                               user_id |-> session[s].user_id, path |-> path,
                               action |-> "liked", like_id |-> 0]]
                     \/ \E existing_like \in existing :
                        txn' = [txn EXCEPT ![i] =
                              [op |-> "like_recommendation", sess |-> s,
                               user_id |-> session[s].user_id, path |-> path,
                               action |-> "unliked",
                               like_id |-> existing_like.id]]
                  /\ last' = Response("like_recommendation", s, "POST", path,
                                      "in_flight", "")

\* /p/<profile_slug>/<category_slug>/<rec_id>/like: db.session.commit() and
\* the JSON answer
LikeRecommendationCommit(i) ==
    /\ CanCommit(i)
    /\ txn[i].op = "like_recommendation"
    /\ txn' = [txn EXCEPT ![i] = IdleTxn]
    /\ UNCHANGED <<users, profiles, categories, recommendations, follows,
                   comments, session, now>>
    /\ LET t == txn[i]
           like == [id |-> nextId.likes, user_id |-> t.user_id,
                    recommendation_id |-> t.path.rec_id]
       IN IF t.action = "unliked"
          THEN \* DELETE ... WHERE id = like_id; no row matched is no error
               /\ likes' = { l \in likes : l.id # t.like_id }
               /\ UNCHANGED nextId
               /\ last' = ApiResponse("like_recommendation", t.sess, "POST",
                                      t.path, "json_200",
                                      LikeBody({ l \in likes :
                                                    l.id # t.like_id }, t))
          ELSE IF CanInsertLike(like, users, recommendations, likes)
          THEN /\ likes' = likes \cup {like}
               /\ nextId' = [nextId EXCEPT !.likes = @ + 1]
               /\ last' = ApiResponse("like_recommendation", t.sess, "POST",
                                      t.path, "json_200",
                                      LikeBody(likes \cup {like}, t))
          ELSE /\ UNCHANGED <<likes, nextId>>
               /\ last' = Response("like_recommendation", t.sess, "POST",
                                   t.path, "error_500", "")

DeleteAllowed_Anyone(comment, rec, uid) == TRUE

\* comment.user_id == current_user.id or
\* recommendation.category.profile.user_id == current_user.id
DeleteAllowed(comment, rec, uid) ==
    \/ comment.user_id = uid
    \/ \E c \in categories, p \in profiles :
          /\ c.id = rec.category_id
          /\ p.id = c.profile_id
          /\ p.user_id = uid

\* /p/<profile_slug>/<category_slug>/<rec_id>/comment/<comment_id>/delete
DeleteComment(s, path, comment_id) ==
    /\ Ready
    /\ UNCHANGED <<users, profiles, categories, recommendations, follows,
                   likes, nextId, session, now, txn>>
    /\ LET input == [path |-> path, comment_id |-> comment_id]
           recs == PathRecs(path.profile_slug, path.category_slug,
                            path.rec_id)
           found == { c \in comments : /\ c.id = comment_id
                                       /\ c.recommendation_id = path.rec_id }
       IN IF ~LoggedIn(s)
          THEN /\ UNCHANGED comments
               /\ last' = Response("delete_comment", s, "POST", input,
                                   "redirect_login", "access_denied")
          ELSE IF recs = {} \/ found = {}
          THEN /\ UNCHANGED comments
               /\ last' = Response("delete_comment", s, "POST", input,
                                   "404", "")
          ELSE \E recommendation \in recs, comment \in found :
               IF DeleteAllowed(comment, recommendation, session[s].user_id)
               THEN /\ comments' = comments \ {comment}
                    /\ last' = Response("delete_comment", s, "POST", input,
                                        "redirect_view_recommendation",
                                        "Comment deleted successfully!")
               ELSE /\ UNCHANGED comments
                    /\ last' = Response("delete_comment", s, "POST", input,
                                        "redirect_view_recommendation",
                                        "You can only delete your own comments.")

\* /follow/<user_id>: the reads; request.referrer or url_for('index'), and
\* no endpoint is named 'index' (the view of '/' is home)
FollowUser(s, user_id, has_referrer) ==
    /\ Ready
    /\ UNCHANGED <<dbVars, session, now>>
    /\ LET input == [user_id |-> user_id, has_referrer |-> has_referrer]
       IN IF ~LoggedIn(s)
          THEN /\ UNCHANGED txn
               /\ last' = Response("follow_user", s, "POST", input,
                                   "redirect_login", "access_denied")
          ELSE IF \A u \in users : u.id # user_id
          THEN /\ UNCHANGED txn
               /\ last' = Response("follow_user", s, "POST", input, "404", "")
          ELSE IF \E f \in follows : /\ f.follower_id = session[s].user_id
                                     /\ f.followed_id = user_id
          THEN /\ UNCHANGED txn
               /\ last' = Response("follow_user", s, "POST", input,
                                   IF has_referrer THEN "redirect_referrer"
                                                   ELSE "error_500",
                                   "already_following")
          ELSE \E i \in FreeSlots :
               /\ nextId.follows <= MaxFollowId
               /\ txn' = [txn EXCEPT ![i] =
                     [op |-> "follow_user", sess |-> s,
                      follower_id |-> session[s].user_id,
                      followed_id |-> user_id, input |-> input]]
               /\ last' = Response("follow_user", s, "POST", input,
                                   "in_flight", "")

\* /follow/<user_id>: db.session.commit() and the redirect
FollowUserCommit(i) ==
    /\ CanCommit(i)
    /\ txn[i].op = "follow_user"
    /\ txn' = [txn EXCEPT ![i] = IdleTxn]
    /\ UNCHANGED <<users, profiles, categories, recommendations, likes,
                   comments, session, now>>
    /\ LET t == txn[i]
           follow == [id |-> nextId.follows, follower_id |-> t.follower_id,
                      followed_id |-> t.followed_id]
       IN IF CanInsertFollow(follow, users, follows)
          THEN /\ follows' = follows \cup {follow}
               /\ nextId' = [nextId EXCEPT !.follows = @ + 1]
               /\ last' = Response("follow_user", t.sess, "POST", t.input,
                                   IF t.input.has_referrer
                                   THEN "redirect_referrer" ELSE "error_500",
                                   "now_following")
          ELSE /\ UNCHANGED <<follows, nextId>>
               /\ last' = Response("follow_user", t.sess, "POST", t.input,
                                   "error_500", "")

\* /unfollow/<user_id>
UnfollowUser(s, user_id, has_referrer) ==
    /\ Ready
    /\ UNCHANGED <<users, profiles, categories, recommendations, likes,
                   comments, nextId, session, now, txn>>
    /\ LET input == [user_id |-> user_id, has_referrer |-> has_referrer]
           found == { f \in follows : /\ f.follower_id = session[s].user_id
                                      /\ f.followed_id = user_id }
       IN IF ~LoggedIn(s)
          THEN /\ UNCHANGED follows
               /\ last' = Response("unfollow_user", s, "POST", input,
                                   "redirect_login", "access_denied")
          ELSE IF \A u \in users : u.id # user_id
          THEN /\ UNCHANGED follows
               /\ last' = Response("unfollow_user", s, "POST", input,
                                   "404", "")
          ELSE /\ follows' = follows \ found
               /\ last' = Response("unfollow_user", s, "POST", input,
                                   IF has_referrer THEN "redirect_referrer"
                                                   ELSE "error_500",
                                   IF found # {} THEN "unfollowed"
                                                 ELSE "not_following")

(***************************************************************************)
(* The tagging API (routes_tagging.py).                                    *)
(***************************************************************************)
\* query(Recommendation).join(Category).join(Profile).filter(...) of the
\* GET routes, recs being the rows of the table recommendations: those of
\* public profiles, and of the profiles of the session's user
VisibleRecs_All(recs, user_id) ==
    { r \in recs :
         \E c \in categories, p \in profiles :
            c.id = r.category_id /\ p.id = c.profile_id }

VisibleRecs(recs, user_id) ==
    { r \in recs :
         \E c \in categories, p \in profiles :
            /\ c.id = r.category_id
            /\ p.id = c.profile_id
            /\ IF user_id # NoUser
               THEN p.is_public \/ p.user_id = user_id
               ELSE p.is_public }

\* the slugs of the lists tags[key] of the given recommendations
TagsOfKey(recs, key) ==
    UNION { Range(r.tags[key]) :
               r \in { x \in recs : Truthy(x.tags) /\ key \in DOMAIN x.tags } }

\* the JSON body of GET /api/tags; sorted(list(set)) is given as the set
AllTagsBody(recs, user_id) ==
    [categories |-> TagsOfKey(VisibleRecs(recs, user_id), "categories"),
     collections |-> TagsOfKey(VisibleRecs(recs, user_id), "collections")]

\* GET /api/tags
get_all_tags(s) ==
    /\ Ready
    /\ UNCHANGED <<dbVars, session, now, txn>>
    /\ last' = ApiResponse("get_all_tags", s, "GET", <<>>, "200",
                           AllTagsBody(recommendations, session[s].user_id))

Str_books == <<"b", "o", "o", "k", "s">>
Str_youtube_channels ==
    <<"y", "o", "u", "t", "u", "b", "e", "-",
      "c", "h", "a", "n", "n", "e", "l", "s">>
Str_food == <<"f", "o", "o", "d">>
Str_where_to_stay ==
    <<"w", "h", "e", "r", "e", "-", "t", "o", "-", "s", "t", "a", "y">>
Str_apps == <<"a", "p", "p", "s">>
Str_products == <<"p", "r", "o", "d", "u", "c", "t", "s">>

default_categories ==
    {Str_books, Str_youtube_channels, Str_food, Str_where_to_stay, Str_apps,
     Str_products}

\* the JSON body of GET /api/tags/categories, given as the ids of its entries
CategoriesBody(recs, user_id) ==
    default_categories
    \cup TagsOfKey(VisibleRecs(recs, user_id), "categories")

\* GET /api/tags/categories
get_categories(s) ==
    /\ Ready
    /\ UNCHANGED <<dbVars, session, now, txn>>
    /\ last' = ApiResponse("get_categories", s, "GET", <<>>, "200",
                           CategoriesBody(recommendations,
                                          session[s].user_id))

\* json.dumps(list): ["a", "b"]
RECURSIVE JoinQuoted(_)
JoinQuoted(list) ==
    IF list = <<>> THEN <<>>
    ELSE <<"\"">> \o Head(list) \o <<"\"">>
         \o (IF Tail(list) = <<>> THEN <<>> ELSE <<",", " ">>)
         \o JoinQuoted(Tail(list))

Serialize(list) == <<"[">> \o JoinQuoted(list) \o <<"]">>

\* text LIKE '%pattern%', the pattern holding no wildcard
Contains(text, pattern) ==
    \E i \in 0..(Len(text) - Len(pattern)) :
       SubSeq(text, i + 1, i + Len(pattern)) = pattern

LikePattern_Bare(tag_slug) == tag_slug

\* f'%"{tag_slug}"%' without the two wildcards
LikePattern(tag_slug) == <<"\"">> \o tag_slug \o <<"\"">>

\* Recommendation.tags.op('->>')(key).like(...): NULL, and so not true, when
\* tags is null or has no such key
TagsLike(tags, key, tag_slug) ==
    /\ tags # None
    /\ key \in DOMAIN tags
    /\ Contains(Serialize(tags[key]), LikePattern(tag_slug))

TagCondition_Any(tags, tag_list) ==
    \E i \in DOMAIN tag_list :
       \/ TagsLike(tags, "categories", models_slugify(tag_list[i]))
       \/ TagsLike(tags, "collections", models_slugify(tag_list[i]))

\* and_(*conditions), one or_(...) per requested tag
TagCondition(tags, tag_list) ==
    \A i \in DOMAIN tag_list :
       \/ TagsLike(tags, "categories", models_slugify(tag_list[i]))
       \/ TagsLike(tags, "collections", models_slugify(tag_list[i]))

\* the JSON object of one recommendation
RecDict(r) == [id |-> r.id, title |-> r.title, tags |-> get_tags(r.tags)]

\* the JSON body of GET /api/recommendations?tags=...; fewer than 50 rows
\* exist, so that limit(50) cuts nothing, and the body is given as the set of
\* its objects
RecommendationsBody(recs, user_id, tags_param) ==
    LET tag_list == IF tags_param # <<>>
                    THEN StrippedItems(SplitComma(tags_param))
                    ELSE <<>>
        query == VisibleRecs(recs, user_id)
        found == IF tag_list # <<>>
                 THEN { r \in query : TagCondition(r.tags, tag_list) }
                 ELSE query
    IN { RecDict(r) : r \in found }

\* GET /api/recommendations
get_recommendations_by_tags(s, tags_param) ==
    /\ Ready
    /\ UNCHANGED <<dbVars, session, now, txn>>
    /\ last' = ApiResponse("get_recommendations_by_tags", s, "GET",
                  tags_param, "200",
                  RecommendationsBody(recommendations, session[s].user_id,
                                      tags_param))

\* rec.category.profile.user_id != user.id
OwnsRec(uid, rec_id) == uid \in OwnersOfRec(rec_id)

\* POST /api/recommendations/<rec_id>/tags
add_tag_to_recommendation(s, rec_id, data) ==
    /\ Ready
    /\ UNCHANGED <<users, profiles, categories, follows, likes, comments,
                   nextId, session, now, txn>>
    /\ LET Reject(status) ==
               /\ UNCHANGED recommendations
               /\ last' = ApiResponse("add_tag_to_recommendation", s, "POST",
                                      <<rec_id, data>>, status, <<>>)
       IN IF ~LoggedIn(s) THEN Reject("401")
          ELSE IF \A r \in recommendations : r.id # rec_id THEN Reject("404")
          ELSE IF ~OwnsRec(session[s].user_id, rec_id) THEN Reject("403")
          ELSE IF ~Truthy(data) \/ "tag" \notin DOMAIN data THEN Reject("400")
          ELSE IF Strip(data.tag) = <<>> THEN Reject("400")
          ELSE \E rec \in { r \in recommendations : r.id = rec_id } :
               LET tag_type == IF "type" \in DOMAIN data THEN data.type
                                                         ELSE "collection"
                   tags == add_tag(rec.tags, Strip(data.tag), tag_type)
               IN /\ recommendations' = (recommendations \ {rec})
                                        \cup {[rec EXCEPT !.tags = tags]}
                  /\ last' = ApiResponse("add_tag_to_recommendation", s,
                                "POST", <<rec_id, data>>, "200",
                                get_tags(tags))

\* DELETE /api/recommendations/<rec_id>/tags
remove_tag_from_recommendation(s, rec_id, data) ==
    /\ Ready
    /\ UNCHANGED <<users, profiles, categories, follows, likes, comments,
                   nextId, session, now, txn>>
    /\ LET Reject(status) ==
               /\ UNCHANGED recommendations
               /\ last' = ApiResponse("remove_tag_from_recommendation", s,
                                      "DELETE", <<rec_id, data>>, status, <<>>)
       IN IF ~LoggedIn(s) THEN Reject("401")
          ELSE IF \A r \in recommendations : r.id # rec_id THEN Reject("404")
          ELSE IF ~OwnsRec(session[s].user_id, rec_id) THEN Reject("403")
          ELSE IF ~Truthy(data) \/ "tag" \notin DOMAIN data THEN Reject("400")
          ELSE \E rec \in { r \in recommendations : r.id = rec_id } :
               LET tag_type == IF "type" \in DOMAIN data THEN data.type
                                                         ELSE "None"
                   tags == remove_tag(rec.tags, Strip(data.tag), tag_type)
               IN /\ recommendations' = (recommendations \ {rec})
                                        \cup {[rec EXCEPT !.tags = tags]}
                  /\ last' = ApiResponse("remove_tag_from_recommendation", s,
                                "DELETE", <<rec_id, data>>, "200",
                                get_tags(tags))

\* [slugify(cat) for cat in categories if cat.strip()]
RECURSIVE SlugifyNonBlank(_)
SlugifyNonBlank(list) ==
    IF list = <<>> THEN <<>>
    ELSE (IF Strip(Head(list)) # <<>> THEN <<models_slugify(Head(list))>>
                                      ELSE <<>>)
         \o SlugifyNonBlank(Tail(list))

\* the new_tags of set_recommendation_tags
NewTagList(new_tags, key, data) ==
    IF TagList(data, key) # <<>>
    THEN PutTagList(new_tags, key, SlugifyNonBlank(TagList(data, key)))
    ELSE new_tags

\* PUT /api/recommendations/<rec_id>/tags
set_recommendation_tags(s, rec_id, data) ==
    /\ Ready
    /\ UNCHANGED <<users, profiles, categories, follows, likes, comments,
                   nextId, session, now, txn>>
    /\ LET Reject(status) ==
               /\ UNCHANGED recommendations
               /\ last' = ApiResponse("set_recommendation_tags", s, "PUT",
                                      <<rec_id, data>>, status, <<>>)
       IN IF ~LoggedIn(s) THEN Reject("401")
          ELSE IF \A r \in recommendations : r.id # rec_id THEN Reject("404")
          ELSE IF ~OwnsRec(session[s].user_id, rec_id) THEN Reject("403")
          ELSE IF ~Truthy(data) THEN Reject("400")
          ELSE \E rec \in { r \in recommendations : r.id = rec_id } :
               LET new_tags == NewTagList(
                                   NewTagList(EmptyTags, "categories", data),
                                   "collections", data)
                   tags == IF new_tags # EmptyTags THEN new_tags ELSE None
               IN /\ recommendations' = (recommendations \ {rec})
                                        \cup {[rec EXCEPT !.tags = tags]}
                  /\ last' = ApiResponse("set_recommendation_tags", s, "PUT",
                                <<rec_id, data>>, "200", get_tags(tags))

(***************************************************************************)
(* A state after three registrations and logins: every browser session is *)
(* logged in as its own verified user, no profile exists yet.              *)
(***************************************************************************)
UserRow(id, username, email) ==
    [id |-> id, username |-> username, email |-> email,
     password_hash |-> generate_password_hash("secret1"),
     is_verified |-> TRUE]

ContentUsers ==
    { UserRow(1, "alice", "a@x.io"), UserRow(2, "bob", "b@x.io"),
      UserRow(3, "carol", "c@x.io") }

ContentSessions ==
    [s \in Sessions |->
        [user_id |-> CASE s = "s1" -> 1 [] s = "s2" -> 2 [] OTHER -> 3,
         pending_user |-> {}]]

\* carol created her profile "Bo" and, with it, the default categories
CarolProfile ==
    [id |-> 1, name |-> Str_Bo, slug |-> slugify(Str_Bo), is_public |-> TRUE,
     user_id |-> 3]

InitProfile ==
    /\ users = ContentUsers
    /\ profiles = {CarolProfile}
    /\ categories = CategoryRows(create_default_categories(1, {}), 1, 1)
    /\ recommendations = {}
    /\ follows = {}
    /\ likes = {}
    /\ comments = {}
    /\ nextId = [InitIds EXCEPT !.users = 4, !.profiles = 2, !.categories = 7]
    /\ session = ContentSessions
    /\ now = 0
    /\ txn = [i \in Slots |-> IdleTxn]
    /\ last = [op |-> "init"]

SpecProfile == InitProfile /\ [][NextProfile]_vars

\* alice created her profile "Bo" and, with it, the default categories
AliceProfile ==
    [id |-> 1, name |-> Str_Bo, slug |-> slugify(Str_Bo), is_public |-> TRUE,
     user_id |-> 1]

\* bob created his profile "bo-1" after alice
BobProfile ==
    [id |-> 2, name |-> Str_bo_1, slug |-> slugify(Str_bo_1),
     is_public |-> TRUE, user_id |-> 2]

\* both profiles hold their default categories
InitCategory ==
    /\ users = ContentUsers
    /\ profiles = {AliceProfile, BobProfile}
    /\ categories = CategoryRows(create_default_categories(1, {}), 1, 1)
                    \cup CategoryRows(create_default_categories(2, {}), 2, 7)
    /\ recommendations = {}
    /\ follows = {}
    /\ likes = {}
    /\ comments = {}
    /\ nextId = [InitIds EXCEPT !.users = 4, !.profiles = 3, !.categories = 13]
    /\ session = ContentSessions
    /\ now = 0
    /\ txn = [i \in Slots |-> IdleTxn]
    /\ last = [op |-> "init"]

SpecCategory == InitCategory /\ [][NextCategory]_vars

(***************************************************************************)
(* Edits of existing profiles and categories, next to carol's creation of  *)
(* her profile.                                                            *)
(***************************************************************************)
EditSessions == {"s1", "s3"}

\* a submission that renames the category and one with the stored name
EditNameForms == { [name |-> Str_books_1], [name |-> Str_Books] }

NextEdit ==
    \/ \E s \in EditSessions, r \in ProfileRequests :
          DashboardProfile(s, r.method, r.form)
    \/ \E i \in Slots : DashboardProfileCommit(i)
    \/ \E form \in EditNameForms :
          \E id \in OwnCategoryTargets("s1") :
             EditCategory("s1", "POST", id, form)
    \/ \E i \in Slots : EditCategoryCommit(i)

SpecEdit == InitCategory /\ [][NextEdit]_vars

(***************************************************************************)
(* Recommendations with likes and comments.  alice (s1) and bob (s2) own   *)
(* a public profile each, carol (s3) has none.  alice kept the default     *)
(* category Books, bob kept Books and Food; each category holds one        *)
(* recommendation, each recommendation is liked and commented once.        *)
(***************************************************************************)
ContentCategories ==
    { c \in CategoryRows(create_default_categories(1, {}), 1, 1)
            \cup CategoryRows(create_default_categories(2, {}), 2, 7) :
         \/ c.profile_id = 1 /\ c.name = Str_Books
         \/ c.profile_id = 2 /\ c.name \in {Str_Books, Str_Food} }

ContentRecommendations ==
    { [id |-> 1, title |-> "Dune", category_id |-> 1, tags |-> EmptyTags],
      [id |-> 2, title |-> "Dune", category_id |-> 7, tags |-> EmptyTags],
      [id |-> 3, title |-> "Dune", category_id |-> 9, tags |-> EmptyTags] }

ContentLikes ==
    { [id |-> 1, user_id |-> 2, recommendation_id |-> 1],
      [id |-> 2, user_id |-> 3, recommendation_id |-> 2],
      [id |-> 3, user_id |-> 3, recommendation_id |-> 3] }

ContentComments ==
    { [id |-> 1, user_id |-> 3, recommendation_id |-> 1],
      [id |-> 2, user_id |-> 1, recommendation_id |-> 2],
      [id |-> 3, user_id |-> 2, recommendation_id |-> 3] }

InitContent ==
    /\ users = ContentUsers
    /\ profiles = {AliceProfile, BobProfile}
    /\ categories = ContentCategories
    /\ recommendations = ContentRecommendations
    /\ follows = {}
    /\ likes = ContentLikes
    /\ comments = ContentComments
    /\ nextId = [InitIds EXCEPT !.users = 4, !.profiles = 3, !.categories = 13,
                                !.recommendations = 4, !.likes = 4,
                                !.comments = 4]
    /\ session = ContentSessions
    /\ now = 0
    /\ txn = [i \in Slots |-> IdleTxn]
    /\ last = [op |-> "init"]

\* the rows a request may name: every existing one, and one that is missing
MissingId == 99
CategoryTargets == { c.id : c \in categories } \cup {MissingId}
RecTargets == { r.id : r \in recommendations } \cup {MissingId}
CommentTargets == { c.id : c \in comments }

\* the paths the modelled requests use: every recommendation under its own
\* category slug, with the slug of its own profile and of every other one
Paths ==
    { [profile_slug |-> p.slug, category_slug |-> x[1].slug,
       rec_id |-> x[2].id] :
          p \in profiles,
          x \in { y \in categories \X recommendations :
                     y[2].category_id = y[1].id } }

\* a title that passes validation with every category, one that fails; the
\* two tag fields are left empty
RecommendationForms ==
    { [category_id |-> c.id, title |-> "Emma", category_tags |-> <<>>,
       collection_tags |-> <<>>] : c \in categories }
    \cup { [category_id |-> c.id, title |-> "", category_tags |-> <<>>,
            collection_tags |-> <<>>] :
              c \in { x \in categories : x.name = Str_Food } }

\* bob, who owns a profile, and carol, who owns none, edit and delete
OwnerSessions == {"s2", "s3"}

NextOwner ==
    \/ \E s \in OwnerSessions, id \in CategoryTargets,
          req \in EditCategoryRequests :
          EditCategory(s, req.method, id, req.form)
    \/ \E i \in Slots : EditCategoryCommit(i)
    \/ \E s \in OwnerSessions, id \in CategoryTargets : DeleteCategory(s, id)
    \/ \E s \in OwnerSessions, id \in RecTargets, form \in RecommendationForms :
          EditRecommendation(s, "POST", id, form)
    \/ \E s \in OwnerSessions, id \in RecTargets : DeleteRecommendation(s, id)

SpecOwner == InitContent /\ [][NextOwner]_vars

\* the paths that lead to a recommendation of the profile of user uid
PathsTo(uid) ==
    { path \in Paths :
         \E r \in PathRecs(path.profile_slug, path.category_slug,
                           path.rec_id) : uid \in OwnersOfRec(r.id) }

\* the forms that name a category Books of the session user's profiles
OwnForms(s) ==
    { form \in RecommendationForms :
         \E p \in ProfilesOf(session[s].user_id) :
            \E c \in CategoriesOf(p.id) :
               c.id = form.category_id /\ c.name = Str_Books }

\* bob recommends and deletes, alice likes bob's recommendations
NextCascade ==
    \/ \E form \in OwnForms("s2") : NewRecommendation("s2", "POST", form)
    \/ \E i \in Slots : NewRecommendationCommit(i)
    \/ \E id \in CategoryTargets : DeleteCategory("s2", id)
    \/ \E id \in RecTargets : DeleteRecommendation("s2", id)
    \/ \E path \in PathsTo(2) : LikeRecommendation("s1", path)
    \/ \E i \in Slots : LikeRecommendationCommit(i)

SpecCascade == InitContent /\ [][NextCascade]_vars

\* alice and bob like and unlike, bob deletes recommendations
NextLike ==
    \/ \E s \in AuthSessions, path \in Paths : LikeRecommendation(s, path)
    \/ \E i \in Slots : LikeRecommendationCommit(i)
    \/ \E id \in RecTargets : DeleteRecommendation("s2", id)

SpecLike == InitContent /\ [][NextLike]_vars

CommentRequests ==
    { [method |-> "POST", content |-> "nice"],
      [method |-> "GET", content |-> ""] }

NextComment ==
    \/ \E s \in Sessions, req \in CommentRequests, path \in Paths :
          ViewRecommendation(s, req.method, path, req.content)
    \/ \E s \in Sessions, path \in Paths, id \in CommentTargets :
          DeleteComment(s, path, id)

SpecComment == InitContent /\ [][NextComment]_vars

(***************************************************************************)
(* Follows among the three verified users.                                 *)
(***************************************************************************)
InitSocial ==
    /\ users = ContentUsers
    /\ profiles = {AliceProfile}
    /\ categories = CategoryRows(create_default_categories(1, {}), 1, 1)
    /\ recommendations = {}
    /\ follows = {}
    /\ likes = {}
    /\ comments = {}
    /\ nextId = [InitIds EXCEPT !.users = 4, !.profiles = 2, !.categories = 7]
    /\ session = ContentSessions
    /\ now = 0
    /\ txn = [i \in Slots |-> IdleTxn]
    /\ last = [op |-> "init"]

UserTargets == { u.id : u \in users } \cup {MissingId}

NextSocial ==
    \/ \E s \in AuthSessions, id \in UserTargets, has_referrer \in BOOLEAN :
          FollowUser(s, id, has_referrer)
    \/ \E i \in Slots : FollowUserCommit(i)
    \/ \E s \in AuthSessions, id \in UserTargets, has_referrer \in BOOLEAN :
          UnfollowUser(s, id, has_referrer)

SpecSocial == InitSocial /\ [][NextSocial]_vars

(***************************************************************************)
(* Tagged recommendations: alice's profile is public, bob's is not; alice *)
(* and bob are logged in, the third browser session is anonymous.         *)
(***************************************************************************)
Str_Art == <<"A", "r", "t">>
Str_art == <<"a", "r", "t">>
Str_smart_art == <<"s", "m", "a", "r", "t", "-", "a", "r", "t">>
Str_Blank == <<" ", " ">>

BobPrivateProfile == [BobProfile EXCEPT !.is_public = FALSE]

TaggedRecommendations ==
    { [id |-> 1, title |-> "Dune", category_id |-> 1, tags |-> EmptyTags],
      [id |-> 2, title |-> "Dune", category_id |-> 7,
       tags |-> [categories |-> <<Str_food>>,
                 collections |-> <<Str_smart_art>>]],
      [id |-> 3, title |-> "Dune", category_id |-> 9,
       tags |-> [collections |-> <<Str_art, Str_smart_art>>]] }

TagSessions ==
    [s \in Sessions |->
        [user_id |-> CASE s = "s1" -> 1 [] s = "s2" -> 2 [] OTHER -> NoUser,
         pending_user |-> {}]]

InitTags ==
    /\ users = ContentUsers
    /\ profiles = {AliceProfile, BobPrivateProfile}
    /\ categories = ContentCategories
    /\ recommendations = TaggedRecommendations
    /\ follows = {}
    /\ likes = {}
    /\ comments = {}
    /\ nextId = [InitIds EXCEPT !.users = 4, !.profiles = 3, !.categories = 13,
                                !.recommendations = 4]
    /\ session = TagSessions
    /\ now = 0
    /\ txn = [i \in Slots |-> IdleTxn]
    /\ last = [op |-> "init"]

\* request.get_json() of the POST and DELETE requests: no JSON object, an
\* empty one, one without 'tag', a blank tag, and tags with and without type
TagBodies ==
    { None, EmptyTags, [type |-> "category"], [tag |-> Str_Blank],
      [tag |-> Str_Art], [tag |-> Str_art, type |-> "category"],
      [tag |-> Str_smart_art, type |-> "collection"] }

\* request.get_json() of the PUT requests
SetTagBodies ==
    { None, EmptyTags,
      [categories |-> <<>>, collections |-> <<>>],
      [categories |-> <<Str_Blank>>],
      [categories |-> <<Str_Art, Str_art>>],
      [categories |-> <<Str_art>>, collections |-> <<Str_smart_art>>] }

\* the tag fields of the recommendation form: "Art, art" and "smart-art"
TagForms ==
    { [category_id |-> 1, title |-> "Emma", category_tags |-> cat,
       collection_tags |-> col] :
          cat \in {<<>>, Str_Art \o <<",", " ">> \o Str_art},
          col \in {<<>>, Str_smart_art} }

\* the owner alice sends every body for her recommendation 1; bob, who does
\* not own it, and the anonymous session send a body that would pass; a
\* recommendation that does not exist is asked for with and without login
TagRequests(bodies, passing) ==
    { [sess |-> "s1", rec_id |-> 1, data |-> data] : data \in bodies }
    \cup { [sess |-> s, rec_id |-> 1, data |-> passing] : s \in {"s2", "s3"} }
    \cup { [sess |-> s, rec_id |-> MissingId, data |-> passing] :
              s \in {"s1", "s3"} }

NextTags ==
    \/ \E req \in TagRequests(TagBodies, [tag |-> Str_Art]) :
          add_tag_to_recommendation(req.sess, req.rec_id, req.data)
    \/ \E req \in TagRequests(TagBodies, [tag |-> Str_Art]) :
          remove_tag_from_recommendation(req.sess, req.rec_id, req.data)
    \/ \E req \in TagRequests(SetTagBodies, [categories |-> <<Str_art>>]) :
          set_recommendation_tags(req.sess, req.rec_id, req.data)
    \/ \E form \in { f \in TagForms : f.category_tags # <<>>
                                      /\ f.collection_tags = <<>> } :
          NewRecommendation("s1", "POST", form)
    \/ \E i \in Slots : NewRecommendationCommit(i)
    \/ \E form \in TagForms : EditRecommendation("s1", "POST", 1, form)

SpecTags == InitTags /\ [][NextTags]_vars

\* the tags parameter of GET /api/recommendations: absent, "art", "Art,food",
\* "smart-art" and ","
TagQueries ==
    { <<>>, Str_art, Str_Art \o <<",">> \o Str_food, Str_smart_art, <<",">> }

\* the PUT bodies by which alice and bob retag their recommendations 1 and 2
RetagBodies ==
    { [collections |-> <<Str_smart_art>>],
      [categories |-> <<Str_food>>, collections |-> <<Str_art>>],
      [categories |-> <<>>, collections |-> <<>>] }

\* alice's recommendation and one of bob's
RetagTargets == {1, 2}

NextTagQuery ==
    \/ \E s \in Sessions, tags_param \in TagQueries :
          get_recommendations_by_tags(s, tags_param)
    \/ \E s \in Sessions : get_all_tags(s)
    \/ \E s \in Sessions : get_categories(s)
    \/ \E s \in AuthSessions, id \in RetagTargets, data \in RetagBodies :
          set_recommendation_tags(s, id, data)
    \/ \E is_public \in BOOLEAN :
          DashboardProfile("s2", "POST",
                           [name |-> BobProfile.name, is_public |-> is_public])

SpecTagQuery == InitTags /\ [][NextTagQuery]_vars

(***************************************************************************)
(* models.slugify applied to tag texts.                                    *)
(***************************************************************************)
MaxTextLen == 3

TextAlphabet == {"A", "b", "1", "-", " ", "_"}

RECURSIVE TextsUpTo(_)
TextsUpTo(n) ==
    IF n = 0 THEN {<<>>}
    ELSE LET shorter == TextsUpTo(n - 1)
         IN shorter \cup { Append(t, c) : t \in shorter, c \in TextAlphabet }

RECURSIVE Repeat(_, _)
Repeat(c, n) == IF n = 0 THEN <<>> ELSE <<c>> \o Repeat(c, n - 1)

Str_Summer2025 ==
    <<"S", "u", "m", "m", "e", "r", " ", "2", "0", "2", "5">>

\* short texts, and texts about as long as the cap of slugify
SlugTexts ==
    TextsUpTo(MaxTextLen)
    \cup { Repeat("a", SlugMaxLen - 2) \o t : t \in TextsUpTo(MaxTextLen) }
    \cup {Str_Summer2025}

InitSlug ==
    /\ users = {}
    /\ profiles = {}
    /\ categories = {}
    /\ recommendations = {}
    /\ follows = {}
    /\ likes = {}
    /\ comments = {}
    /\ nextId = InitIds
    /\ session = [s \in Sessions |-> EmptySession]
    /\ now = 0
    /\ txn = [i \in Slots |-> IdleTxn]
    /\ \E text \in SlugTexts : last = [op |-> "text", input |-> text]

\* slugify(text)
Slugify ==
    /\ last.op = "text"
    /\ last' = [op |-> "slugify", input |-> last.input,
                resp |-> models_slugify(last.input)]
    /\ UNCHANGED <<dbVars, session, now, txn>>

NextSlug == Slugify

SpecSlug == InitSlug /\ [][NextSlug]_vars

(***************************************************************************)
(* The login gate.  alice's browser session s1 logs out and in again and  *)
(* requests every gated route.  Deleting her recommendation, commenting,  *)
(* liking, following, unfollowing and tagging change rows when she is     *)
(* logged in; the other routes are requested with a form or a target that *)
(* changes no row even then.                                               *)
(***************************************************************************)
InitGate ==
    /\ users = ContentUsers
    /\ profiles = {AliceProfile, BobProfile}
    /\ categories = CategoryRows(create_default_categories(1, {}), 1, 1)
                    \cup CategoryRows(create_default_categories(2, {}), 2, 7)
    /\ recommendations = ContentRecommendations
    /\ follows = {}
    /\ likes = ContentLikes
    /\ comments = ContentComments
    /\ nextId = [InitIds EXCEPT !.users = 4, !.profiles = 3, !.categories = 13,
                                !.recommendations = 4, !.likes = 4,
                                !.comments = 4]
    /\ session = ContentSessions
    /\ now = 0
    /\ txn = [i \in Slots |-> IdleTxn]
    /\ last = [op |-> "init"]

\* bob's recommendation 2 under his category Books
GatePath ==
    [profile_slug |-> BobProfile.slug, category_slug |-> slugify(Str_Books),
     rec_id |-> 2]

\* a recommendation form that passes validation for alice, and one whose
\* title is missing
GateForms ==
    { [category_id |-> 1, title |-> t, category_tags |-> <<>>,
       collection_tags |-> <<>>] : t \in {"Emma", ""} }

NextGate ==
    \/ Logout("s1")
    \/ \E r \in { x \in LoginRequests : x.form.username # "bob" } :
          Login("s1", r.method, r.form)
    \/ DashboardProfile("s1", "GET", [name |-> <<>>, is_public |-> FALSE])
    \/ DashboardCategories("s1")
    \/ \E i \in Slots : DashboardCategoriesCommit(i)
    \/ NewCategory("s1", "POST", [name |-> Str_B])
    \/ EditCategory("s1", "POST", MissingId, [name |-> Str_books_1])
    \/ DeleteCategory("s1", MissingId)
    \/ \E form \in { f \in GateForms : f.title = "" } :
          NewRecommendation("s1", "POST", form)
    \/ \E form \in { f \in GateForms : f.title = "" } :
          EditRecommendation("s1", "POST", 1, form)
    \/ DeleteRecommendation("s1", 1)
    \/ ViewRecommendation("s1", "POST", GatePath, "nice")
    \/ LikeRecommendation("s1", GatePath)
    \/ \E i \in Slots : LikeRecommendationCommit(i)
    \/ DeleteComment("s1", GatePath, MissingId)
    \/ FollowUser("s1", 2, TRUE)
    \/ \E i \in Slots : FollowUserCommit(i)
    \/ UnfollowUser("s1", 2, TRUE)
    \/ add_tag_to_recommendation("s1", 1, [tag |-> Str_Art])

SpecGate == InitGate /\ [][NextGate]_vars

(***************************************************************************)
(* Likes and comments under a profile that is public or not: alice and an *)
(* anonymous browser session view, comment, like and delete comments      *)
(* through right and wrong paths to a recommendation of bob, while bob    *)
(* switches the visibility of his profile.                                 *)
(***************************************************************************)
InitPublic ==
    /\ users = ContentUsers
    /\ profiles = {AliceProfile, BobProfile}
    /\ categories = ContentCategories
    /\ recommendations = ContentRecommendations
    /\ follows = {}
    /\ likes = ContentLikes
    /\ comments = ContentComments
    /\ nextId = [InitIds EXCEPT !.users = 4, !.profiles = 3, !.categories = 13,
                                !.recommendations = 4, !.likes = 4,
                                !.comments = 4]
    /\ session = TagSessions
    /\ now = 0
    /\ txn = [i \in Slots |-> IdleTxn]
    /\ last = [op |-> "init"]

PublicSessions == {"s1", "s3"}

\* bob's recommendation 2 under its own path, under the category Books of
\* alice's profile, and under a category slug alice's profile does not have
PublicPaths ==
    { GatePath,
      [GatePath EXCEPT !.profile_slug = AliceProfile.slug],
      [GatePath EXCEPT !.profile_slug = AliceProfile.slug,
                       !.category_slug = slugify(Str_Food)] }

\* the comments on bob's recommendation 2
PublicCommentTargets ==
    { c.id : c \in { x \in comments : x.recommendation_id = 2 } }

NextPublic ==
    \/ \E s \in PublicSessions, req \in CommentRequests, path \in PublicPaths :
          ViewRecommendation(s, req.method, path, req.content)
    \/ \E s \in PublicSessions, path \in PublicPaths :
          LikeRecommendation(s, path)
    \/ \E i \in Slots : LikeRecommendationCommit(i)
    \/ \E s \in PublicSessions, path \in PublicPaths,
          id \in PublicCommentTargets :
          DeleteComment(s, path, id)
    \/ \E is_public \in BOOLEAN :
          DashboardProfile("s2", "POST",
                           [name |-> BobProfile.name, is_public |-> is_public])

SpecPublic == InitPublic /\ [][NextPublic]_vars

(***************************************************************************)
(* Recommendations against the categories of both profiles: alice submits *)
(* the form for a new recommendation, bob the form for every existing     *)
(* recommendation, each with every category id, their own and the         *)
(* other's; bob deletes his category Books meanwhile.                      *)
(***************************************************************************)
NextRecOwner ==
    \/ \E form \in RecommendationForms : NewRecommendation("s1", "POST", form)
    \/ \E i \in Slots : NewRecommendationCommit(i)
    \/ \E id \in RecTargets, form \in RecommendationForms :
          EditRecommendation("s2", "POST", id, form)
    \/ \E id \in OwnBooksTargets("s2") : DeleteCategory("s2", id)

SpecRecOwner == InitContent /\ [][NextRecOwner]_vars

(***************************************************************************)
(* Registration flow.                                                      *)
(***************************************************************************)
VerifyStep(s) ==
    /\ last'.op = "verify_registration"
    /\ last'.sess = s

\* C1: a verify POST carrying the pending code, made no later than the
\* pending record's expiry, creates exactly one verified User with the pending
\* username, email and password hash, removes the pending record and sets the
\* session's user_id to the new User's id, whatever other sessions did since
\* this session's register step.
C1_VerifyCreatesUser ==
    [][\A s \in Sessions :
          ( /\ VerifyStep(s)
            /\ last'.method = "POST"
            /\ HasPending(s)
            /\ last'.input = Pending(s).verification_code
            /\ now <= Pending(s).expires_at )
          => ( /\ Cardinality(users' \ users) = 1
               /\ \A u \in users' \ users :
                     /\ u.username = Pending(s).username
                     /\ u.email = Pending(s).email
                     /\ u.password_hash = Pending(s).password_hash
                     /\ u.is_verified
                     /\ session'[s].user_id = u.id
               /\ session'[s].pending_user = {} )]_vars

IsDigitCode(c) ==
    /\ Len(c) = 6
    /\ \A i \in 1..Len(c) : c[i] \in 0..9

\* C3: a register POST with valid data and an unused username and email
\* leaves exactly one pending record in the session, with that username and
\* email, a hash of the password, a code of exactly 6 decimal digits and an
\* expiry 10 minutes after the request, and creates no User; with a used
\* username or email it changes neither the session nor the users.
C3_RegisterPending ==
    [][\A s \in Sessions :
          ( /\ last'.op = "register" /\ last'.sess = s
            /\ last'.method = "POST"
            /\ RegisterFormValid(last'.input) )
          => IF \A u \in users : /\ u.username # last'.input.username
                                 /\ u.email # last'.input.email
             THEN /\ Cardinality(session'[s].pending_user) = 1
                  /\ \A p \in session'[s].pending_user :
                        /\ p.username = last'.input.username
                        /\ p.email = last'.input.email
                        /\ check_password_hash(p.password_hash,
                                               last'.input.password)
                        /\ IsDigitCode(p.verification_code)
                        /\ p.expires_at = now + 10
                  /\ users' = users
                  /\ session'[s].user_id = session[s].user_id
             ELSE /\ session' = session
                  /\ users' = users]_vars

\* a register POST replaced an older pending record while a User exists
C3_Witness ==
    /\ last.op = "register"
    /\ last.flash = "register_success"
    /\ users # {}
    /\ \E p \in session[last.sess].pending_user :
          /\ p.username = last.input.username
          /\ p.expires_at = now + 10
          /\ now > 0

(***************************************************************************)
(* Slugs.                                                                  *)
(***************************************************************************)
MaxSuffix == 9

\* slug is base itself when base is free, else base-k for the least k >= 1
\* with base-k free
IsLeastFreeSlug(slug, base, taken) ==
    IF base \notin taken
    THEN slug = base
    ELSE \E k \in 1..MaxSuffix :
            /\ slug = Suffixed(base, k)
            /\ Suffixed(base, k) \notin taken
            /\ \A j \in 1..(k - 1) : Suffixed(base, j) \in taken

ProfileSlugUnique ==
    \A p \in profiles, q \in profiles : p.slug = q.slug => p.id = q.id

NewProfileSlugLeast ==
    \A p \in profiles' :
       (\A q \in profiles : q.id # p.id)
       => IsLeastFreeSlug(p.slug, slugify(p.name), ProfileSlugs)

\* C6: no two Profile rows ever have the same slug, under any interleaving of
\* dashboard_profile submissions, and a newly inserted Profile has the slug of
\* its name when that is free, else that slug with the least free suffix -k,
\* k >= 1.
C6_ProfileSlugUnique ==
    /\ []ProfileSlugUnique
    /\ [][NewProfileSlugLeast]_vars

\* three profiles: the name slug, and suffixes 1 and 2 derived from it, after
\* one commit was rejected by the unique index
C6_Witness ==
    /\ \E p \in profiles, q \in profiles :
          /\ p.name = q.name
          /\ p.slug = slugify(p.name)
          /\ q.slug = Suffixed(slugify(p.name), 2)
    /\ \E p \in profiles : p.slug = Suffixed(slugify(Str_Bo), 1)
    /\ last.op = "dashboard_profile"

CategorySlugUnique ==
    \A c \in categories, d \in categories :
       (c.profile_id = d.profile_id /\ c.slug = d.slug) => c.id = d.id

\* the slugs of pairs[1..n] are each the least free one after the earlier ones
RECURSIVE PairsLeastFree(_, _, _)
PairsLeastFree(pairs, n, taken) ==
    \/ n = 0
    \/ /\ PairsLeastFree(pairs, n - 1, taken)
       /\ IsLeastFreeSlug(pairs[n].slug, slugify(pairs[n].name),
             taken \cup { pairs[j].slug : j \in 1..(n - 1) })

\* the slug a category request settles on when it leaves its slug loop
CategorySlugChoice ==
    \A i \in Slots :
       txn'[i] # txn[i] =>
          /\ txn'[i].op = "new_category" =>
                IsLeastFreeSlug(txn'[i].slug, slugify(txn'[i].form.name),
                                CategorySlugs(txn'[i].profile_id))
          /\ (txn'[i].op = "edit_category" /\ txn'[i].renamed) =>
                \E c \in categories :
                   /\ c.id = txn'[i].category_id
                   /\ IsLeastFreeSlug(txn'[i].slug, slugify(txn'[i].name),
                         { x.slug : x \in { y \in CategoriesOf(c.profile_id) :
                                               y.id # c.id } })
          /\ txn'[i].op = "dashboard_categories" =>
                PairsLeastFree(txn'[i].pairs, Len(txn'[i].pairs),
                               CategorySlugs(txn'[i].profile_id))

\* a commit writes the slug its request settled on
CategoryCommitKeepsSlug ==
    \A i \in Slots :
       /\ txn[i].op = "new_category" /\ txn'[i] = IdleTxn =>
             \A c \in categories' :
                (\A d \in categories : d.id # c.id) =>
                   /\ c.slug = txn[i].slug
                   /\ c.profile_id = txn[i].profile_id
       /\ txn[i].op = "edit_category" /\ txn'[i] = IdleTxn =>
             \A c \in categories' :
                c \notin categories =>
                   /\ c.id = txn[i].category_id
                   /\ c.slug = txn[i].slug

\* C7: no two Category rows of one profile ever have the same slug, under any
\* interleaving of new_category, edit_category, delete_category and the
\* default-category creation; a request whose slug s is taken in its profile
\* settles on s-k for the least k >= 1 free in that profile, and that is the
\* slug its commit writes.
C7_CategorySlugUnique ==
    /\ []CategorySlugUnique
    /\ [][CategorySlugChoice /\ CategoryCommitKeepsSlug]_vars

\* two profiles hold the same slug, and a profile holds a suffixed slug next
\* to the slug it collided with
C7_Witness ==
    /\ \E c \in categories, d \in categories :
          c.profile_id # d.profile_id /\ c.slug = d.slug
    /\ \E c \in categories, d \in categories :
          /\ c.profile_id = d.profile_id
          /\ d.slug = slugify(c.name)
          /\ c.slug = Suffixed(slugify(c.name), 1)


(***************************************************************************)
(* C4, C5: who may delete a comment, edit or delete a category or a        *)
(* recommendation.                                                         *)
(***************************************************************************)
\* the comments a delete_comment request addresses: its path leads to the
\* recommendation and the comment is one of that recommendation
AddressedComments(input) ==
    IF PathRecs(input.path.profile_slug, input.path.category_slug,
                input.path.rec_id) = {}
    THEN {}
    ELSE { c \in comments : /\ c.id = input.comment_id
                            /\ c.recommendation_id = input.path.rec_id }

MayDelete(c, uid) == c.user_id = uid \/ uid \in OwnersOfRec(c.recommendation_id)

DeleteCommentStep ==
    last'.op = "delete_comment" =>
       LET uid == session[last'.sess].user_id
           addressed == AddressedComments(last'.input)
       IN /\ UNCHANGED <<users, profiles, categories, recommendations,
                         follows, likes, nextId, session>>
          /\ comments' \subseteq comments
          /\ \A c \in comments \ comments' :
                c \in addressed /\ uid # NoUser /\ MayDelete(c, uid)
          /\ \A c \in addressed :
                uid # NoUser =>
                   IF MayDelete(c, uid)
                   THEN /\ comments' = comments \ {c}
                        /\ last'.flash = "Comment deleted successfully!"
                   ELSE /\ comments' = comments
                        /\ last'.flash =
                              "You can only delete your own comments."

\* C4: a delete_comment step removes a Comment only if the session user is
\* its author or owns the profile of its recommendation; such a user's
\* request removes exactly that comment; the request of any other logged-in
\* user whose path leads to the comment is answered with the notice 'You can
\* only delete your own comments.' and changes no row.
C4_DeleteCommentAuthorised == [][DeleteCommentStep]_vars

\* bob, who owns another profile, was refused carol's comment on alice's
\* recommendation, and the comment is still there
C4_Witness ==
    /\ last.op = "delete_comment"
    /\ last.flash = "You can only delete your own comments."
    /\ session[last.sess].user_id = 2
    /\ \E c \in comments :
          /\ c.id = last.input.comment_id
          /\ c.user_id = 3
          /\ OwnersOfRec(c.recommendation_id) = {1}

GatedCategoryOps == {"edit_category", "delete_category"}
GatedRecommendationOps == {"edit_recommendation", "delete_recommendation"}

\* the profiles of the users other than uid
ForeignProfileIds(uid) == { p.id : p \in { x \in profiles : x.user_id # uid } }

\* the target of the request exists and belongs to a profile of another user
TargetForeign(op, id, uid) ==
    \/ /\ op \in GatedCategoryOps
       /\ \E c \in categories :
             c.id = id /\ c.profile_id \in ForeignProfileIds(uid)
    \/ /\ op \in GatedRecommendationOps
       /\ \E r \in recommendations, c \in categories :
             /\ r.id = id
             /\ c.id = r.category_id
             /\ c.profile_id \in ForeignProfileIds(uid)

OwnershipStep ==
    LET op == last'.op
        uid == session[last'.sess].user_id
    IN (/\ op \in GatedCategoryOps \cup GatedRecommendationOps
        /\ uid # NoUser
        /\ \/ ProfilesOf(uid) = {}
           \/ TargetForeign(op, last'.input, uid))
       => /\ last'.resp \in {"404", "error_500"}
          /\ UNCHANGED <<categories, recommendations, likes, comments>>

\* C5: an edit_category, delete_category, edit_recommendation or
\* delete_recommendation request of a logged-in user who has no profile, or
\* whose target belongs to another user's profile, is answered 404 or 500
\* and leaves every Category, Recommendation, Like and Comment row as it is.
C5_OwnershipGating == [][OwnershipStep]_vars

\* bob was refused the deletion of alice's recommendation, which is still
\* there with its like and its comment
C5_Witness ==
    /\ last.op = "delete_recommendation"
    /\ last.resp = "404"
    /\ session[last.sess].user_id = 2
    /\ OwnersOfRec(last.input) = {1}
    /\ \E l \in likes : l.recommendation_id = last.input
    /\ \E c \in comments : c.recommendation_id = last.input

(***************************************************************************)
(* C8: cascade delete and referential integrity.                           *)
(***************************************************************************)
RefIntegrity ==
    /\ \A r \in recommendations : \E c \in categories : c.id = r.category_id
    /\ \A l \in likes : \E r \in recommendations : r.id = l.recommendation_id
    /\ \A c \in comments :
          \E r \in recommendations : r.id = c.recommendation_id

\* what is left of likes and comments when the recommendations gone are gone
KeptLikes(gone) == { l \in likes : l.recommendation_id \notin gone }
KeptComments(gone) == { c \in comments : c.recommendation_id \notin gone }

CascadeStep ==
    /\ (last'.op = "delete_category" /\ last'.flash = "category_deleted") =>
          LET gone == { r.id : r \in { x \in recommendations :
                                          x.category_id = last'.input } }
          IN /\ categories' = { c \in categories : c.id # last'.input }
             /\ recommendations' =
                   { r \in recommendations : r.category_id # last'.input }
             /\ likes' = KeptLikes(gone)
             /\ comments' = KeptComments(gone)
    /\ (/\ last'.op = "delete_recommendation"
        /\ last'.flash = "recommendation_deleted") =>
          /\ categories' = categories
          /\ recommendations' =
                { r \in recommendations : r.id # last'.input }
          /\ likes' = KeptLikes({last'.input})
          /\ comments' = KeptComments({last'.input})

\* C8: a successful delete_category removes the category, its
\* recommendations and their likes and comments, and nothing else; a
\* successful delete_recommendation removes the recommendation, its likes
\* and comments, and nothing else; in every reachable state every
\* Recommendation references an existing Category and every Like and
\* Comment an existing Recommendation.
C8_CascadeDelete == []RefIntegrity /\ [][CascadeStep]_vars

\* bob deleted his category Books while a like of its recommendation was
\* in flight; the rows of the other categories are all there
C8_Witness ==
    /\ last.op = "delete_category"
    /\ last.flash = "category_deleted"
    /\ last.input = 7
    /\ \E i \in Slots : /\ txn[i].op = "like_recommendation"
                        /\ txn[i].path.rec_id = 2
                        /\ txn[i].action = "liked"
    /\ { r.id : r \in recommendations } = {1, 3}
    /\ { l.id : l \in likes } = {1, 3}
    /\ { c.id : c \in comments } = {1, 3}

(***************************************************************************)
(* C9, C10: one Follow per pair of users, one Like per user and            *)
(* recommendation.                                                         *)
(***************************************************************************)
FollowsOfPair(rows, a, b) ==
    { f \in rows : f.follower_id = a /\ f.followed_id = b }

FollowUnique ==
    \A f \in follows :
       Cardinality(FollowsOfPair(follows, f.follower_id, f.followed_id)) = 1

FollowStep ==
    last'.op = "follow_user" =>
       LET uid == session[last'.sess].user_id
           target == last'.input.user_id
       IN (uid # NoUser /\ FollowsOfPair(follows, uid, target) # {}) =>
             /\ follows' = follows
             /\ IF txn' = txn
                THEN last'.flash = "already_following"
                ELSE last'.resp = "error_500" /\ last'.flash = ""

\* C9: no two Follow rows have the same follower and followed user; a
\* follow_user request for a pair that exists adds no row and reports
\* 'already following'; a follow_user commit for a pair that another request
\* inserted since the pre-check is rejected and adds no row.
C9_FollowUnique == []FollowUnique /\ [][FollowStep]_vars

\* the second of two racing follow requests was rejected at its commit
C9_Witness ==
    /\ last.op = "follow_user"
    /\ last.resp = "error_500"
    /\ last.flash = ""
    /\ Cardinality(FollowsOfPair(follows, session[last.sess].user_id,
                                 last.input.user_id)) = 1

LikesOfPair(rows, u, r) ==
    { l \in rows : l.user_id = u /\ l.recommendation_id = r }

LikeUnique ==
    \A l \in likes :
       Cardinality(LikesOfPair(likes, l.user_id, l.recommendation_id)) = 1

LikeStep ==
    last'.op = "like_recommendation" =>
       LET uid == session[last'.sess].user_id
           rec_id == last'.input.rec_id
       IN (uid # NoUser /\ LikesOfPair(likes, uid, rec_id) # {}) =>
             /\ likes' \subseteq likes
             /\ Cardinality(LikesOfPair(likes', uid, rec_id)) <= 1

\* C10: no two Like rows have the same user and recommendation; a
\* like_recommendation step of a user who has a Like row for the
\* recommendation adds no row.
C10_LikeUnique == []LikeUnique /\ [][LikeStep]_vars

\* the second of two racing likes of one user was rejected at its commit
C10_Witness ==
    /\ last.op = "like_recommendation"
    /\ last.resp = "error_500"
    /\ Cardinality(LikesOfPair(likes, session[last.sess].user_id,
                               last.input.rec_id)) = 1

(***************************************************************************)
(* C18: for every text, models.slugify returns only lowercase letters,    *)
(* digits and hyphens, never two hyphens in a row (a run of other         *)
(* characters has become one hyphen), no hyphen at either end, and at     *)
(* most 50 characters.                                                     *)
(***************************************************************************)
IsSlugChar(c) == IsLower(c) \/ IsDigitChar(c) \/ c = "-"

C18_SlugNormalized ==
    last.op = "slugify" =>
        LET slug == last.resp
        IN /\ \A i \in DOMAIN slug : IsSlugChar(slug[i])
           /\ \A i \in 1..(Len(slug) - 1) :
                 ~(slug[i] = "-" /\ slug[i + 1] = "-")
           /\ slug # <<>> => slug[1] # "-" /\ slug[Len(slug)] # "-"
           /\ Len(slug) <= SlugMaxLen

(***************************************************************************)
(* C12: in every reachable state the tags of every Recommendation are     *)
(* absent, empty, or a mapping with no key other than 'categories' and    *)
(* 'collections', each list holding no slug twice and only slugs of       *)
(* lowercase letters, digits and hyphens of at most 50 characters.        *)
(***************************************************************************)
NoDuplicates(list) ==
    \A i, j \in DOMAIN list : list[i] = list[j] => i = j

IsNormalizedSlug(slug) ==
    /\ \A i \in DOMAIN slug : IsSlugChar(slug[i])
    /\ Len(slug) <= SlugMaxLen

TagsWellFormed(tags) ==
    \/ tags = None
    \/ /\ DOMAIN tags \subseteq TagKeys
       /\ \A key \in DOMAIN tags :
             /\ NoDuplicates(tags[key])
             /\ \A i \in DOMAIN tags[key] : IsNormalizedSlug(tags[key][i])

C12_TagsWellFormed == \A r \in recommendations : TagsWellFormed(r.tags)

(***************************************************************************)
(* C11: after add_tag(t, type) on any reachable tags value, get_tags()    *)
(* contains slugify(t), a second add_tag(t, type) changes nothing, and    *)
(* the slug occurs once in the list of that type.                          *)
(***************************************************************************)
Count(list, x) == Cardinality({ i \in DOMAIN list : list[i] = x })

TagsOfRec(recs, rec_id) == (CHOOSE r \in recs : r.id = rec_id).tags

C11_AddTagOnce ==
    [][(last'.op = "add_tag_to_recommendation" /\ last'.resp = "200") =>
          LET data == last'.input[2]
              t == Strip(data.tag)
              type == IF "type" \in DOMAIN data THEN data.type
                                                ELSE "collection"
              key == IF type = "category" THEN "categories"
                                          ELSE "collections"
              after == TagsOfRec(recommendations', last'.input[1])
          IN /\ models_slugify(t) \in Range(get_tags(after))
             /\ last'.body = get_tags(after)
             /\ add_tag(after, t, type) = after
             /\ Count(TagList(after, key), models_slugify(t)) = 1]_vars

(***************************************************************************)
(* C16: a POST, DELETE or PUT on the tags of a recommendation is answered *)
(* 401 without a session user, 404 for a recommendation that does not     *)
(* exist, 403 for a user who does not own it and 400 for a missing body   *)
(* or a missing or empty tag; none of these changes any tags, and tags    *)
(* change only on a request of the owner.                                  *)
(***************************************************************************)
TagWriteOps ==
    {"add_tag_to_recommendation", "remove_tag_from_recommendation",
     "set_recommendation_tags"}

\* the body is missing, or the single-tag request names no tag
BadTagBody(op, data) ==
    \/ ~Truthy(data)
    \/ /\ op # "set_recommendation_tags"
       /\ ("tag" \notin DOMAIN data \/ Strip(data.tag) = <<>>)

C16_TagApiRejects ==
    [][last'.op \in TagWriteOps =>
          LET s == last'.sess
              rec_id == last'.input[1]
              data == last'.input[2]
              exists == \E r \in recommendations : r.id = rec_id
              owner == session[s].user_id \in OwnersOfRec(rec_id)
              expected ==
                  IF ~LoggedIn(s) THEN "401"
                  ELSE IF ~exists THEN "404"
                  ELSE IF ~owner THEN "403"
                  ELSE IF BadTagBody(last'.op, data) THEN "400"
                  ELSE "200"
          IN /\ last'.resp = expected
             /\ last'.resp # "200" => recommendations' = recommendations
             /\ recommendations' # recommendations =>
                   LoggedIn(s) /\ exists /\ owner]_vars

(***************************************************************************)
(* C14: GET /api/recommendations returns exactly the recommendations the  *)
(* session may see that carry every requested tag (after slugify) in      *)
(* their 'categories' or 'collections' list; one that carries only some   *)
(* of them is not returned, and without a requested tag every visible     *)
(* recommendation is.                                                      *)
(***************************************************************************)
\* the profile of the recommendation is public or belongs to user uid
MayView(uid, r) ==
    \E c \in categories, p \in profiles :
       /\ c.id = r.category_id
       /\ p.id = c.profile_id
       /\ (p.is_public \/ (uid # NoUser /\ p.user_id = uid))

RequestedSlugs(tags_param) ==
    { models_slugify(t) : t \in Range(StrippedItems(SplitComma(tags_param))) }

CarriesTag(r, slug) ==
    \/ slug \in Range(TagList(r.tags, "categories"))
    \/ slug \in Range(TagList(r.tags, "collections"))

C14_TagFilterAnd ==
    last.op = "get_recommendations_by_tags" =>
        /\ last.resp = "200"
        /\ last.body =
              { RecDict(r) : r \in
                  { x \in recommendations :
                       /\ MayView(session[last.sess].user_id, x)
                       /\ \A slug \in RequestedSlugs(last.input) :
                             CarriesTag(x, slug) } }

\* asked for "Art,food": one visible recommendation carries both and is
\* returned, another carries one of the two and is not
C14_Witness ==
    /\ last.op = "get_recommendations_by_tags"
    /\ RequestedSlugs(last.input) = {Str_art, Str_food}
    /\ \E r1, r2 \in recommendations :
          /\ MayView(session[last.sess].user_id, r1)
          /\ MayView(session[last.sess].user_id, r2)
          /\ RecDict(r1) \in last.body
          /\ CarriesTag(r2, Str_food) /\ ~CarriesTag(r2, Str_art)
          /\ RecDict(r2) \notin last.body

(***************************************************************************)
(* C15, as stated: a visible recommendation is returned whenever the slug *)
(* of every requested tag is a substring of one of its serialized tag     *)
(* lists, so that one tagged only 'smart-art' is returned for 'art'.      *)
(***************************************************************************)
SubstringOfList(tags, text) ==
    \E key \in TagKeys :
       /\ tags # None
       /\ key \in DOMAIN tags
       /\ Contains(Serialize(tags[key]), text)

C15_SubstringMatch ==
    (last.op = "get_recommendations_by_tags"
        /\ RequestedSlugs(last.input) # {}) =>
        \A r \in recommendations :
           (/\ MayView(session[last.sess].user_id, r)
            /\ \A slug \in RequestedSlugs(last.input) :
                  SubstringOfList(r.tags, slug))
           => RecDict(r) \in last.body

(***************************************************************************)
(* C15, amended: a visible recommendation is returned exactly when the    *)
(* slug of every requested tag, enclosed in double quotes, is a substring *)
(* of one of its serialized tag lists; every returned recommendation      *)
(* carries each requested slug as a whole tag, and one tagged only        *)
(* 'smart-art' is not returned for 'art'.                                  *)
(***************************************************************************)
C15_QuotedMatch ==
    (last.op = "get_recommendations_by_tags"
        /\ RequestedSlugs(last.input) # {}) =>
        \A r \in recommendations :
           /\ (RecDict(r) \in last.body) <=>
                 (/\ MayView(session[last.sess].user_id, r)
                  /\ \A slug \in RequestedSlugs(last.input) :
                        SubstringOfList(r.tags,
                                        <<"\"">> \o slug \o <<"\"">>))
           /\ (RecDict(r) \in last.body) =>
                 \A slug \in RequestedSlugs(last.input) :
                    slug \in Range(get_tags(r.tags))
           /\ (get_tags(r.tags) = <<Str_smart_art>>
                    /\ last.input = Str_art) =>
                 RecDict(r) \notin last.body

\* 'art' was asked for by a session that may see a recommendation tagged
\* only 'smart-art'
C15_Witness ==
    /\ last.op = "get_recommendations_by_tags"
    /\ last.input = Str_art
    /\ \E r \in recommendations :
          /\ MayView(session[last.sess].user_id, r)
          /\ get_tags(r.tags) = <<Str_smart_art>>
          /\ RecDict(r) \notin last.body

(***************************************************************************)
(* C17: the three GET routes of the API answer 200 to every session,      *)
(* logged in or not, and their bodies hold only recommendations and tags  *)
(* of profiles that are public or belong to the session's user; a step    *)
(* that changes only recommendations the session's user may not see       *)
(* changes none of the bodies that session would get.                      *)
(***************************************************************************)
ApiGetOps == {"get_recommendations_by_tags", "get_all_tags", "get_categories"}

Viewable(recs, uid) == { r \in recs : MayView(uid, r) }

ViewableTags(uid, key) ==
    UNION { Range(TagList(r.tags, key)) : r \in Viewable(recommendations, uid) }

ExposesOnlyViewable ==
    last.op \in ApiGetOps =>
        LET uid == session[last.sess].user_id
        IN /\ last.resp = "200"
           /\ last.op = "get_recommendations_by_tags" =>
                 \A d \in last.body :
                    \E r \in Viewable(recommendations, uid) : d = RecDict(r)
           /\ last.op = "get_all_tags" =>
                 /\ last.body.categories \subseteq
                       ViewableTags(uid, "categories")
                 /\ last.body.collections \subseteq
                       ViewableTags(uid, "collections")
           /\ last.op = "get_categories" =>
                 last.body \ default_categories \subseteq
                    ViewableTags(uid, "categories")

HiddenChangeUnseen ==
    \A s \in Sessions :
       (/\ UNCHANGED <<users, profiles, categories, session>>
        /\ recommendations' # recommendations
        /\ Viewable(recommendations', session[s].user_id) =
              Viewable(recommendations, session[s].user_id))
       => LET uid == session[s].user_id
          IN /\ AllTagsBody(recommendations', uid) =
                   AllTagsBody(recommendations, uid)
             /\ CategoriesBody(recommendations', uid) =
                   CategoriesBody(recommendations, uid)
             /\ \A tags_param \in TagQueries :
                   RecommendationsBody(recommendations', uid, tags_param) =
                      RecommendationsBody(recommendations, uid, tags_param)

C17_ApiVisibility == []ExposesOnlyViewable /\ [][HiddenChangeUnseen]_vars

\* the anonymous session lists the tags after bob has retagged a
\* recommendation of his non-public profile: none of its tags is listed
C17_Witness ==
    /\ last.op = "get_all_tags"
    /\ last.sess = "s3"
    /\ \E r \in recommendations \ TaggedRecommendations :
          /\ ~MayView(NoUser, r)
          /\ get_tags(r.tags) # <<>>
          /\ \A i \in DOMAIN get_tags(r.tags) :
                /\ get_tags(r.tags)[i] \notin last.body.categories
                /\ get_tags(r.tags)[i] \notin last.body.collections

(***************************************************************************)
(* C13: in every reachable state, concurrent dashboard_profile            *)
(* submissions of one user included, each User owns at most one Profile.  *)
(***************************************************************************)
C13_OneProfilePerUser ==
    \A u \in users : Cardinality(ProfilesOf(u.id)) <= 1

(***************************************************************************)
(* C19, as stated: a pending-registration record stays in its session     *)
(* unchanged until a verify request of that session succeeds or finds it  *)
(* expired; apart from these only a register request of that session      *)
(* replaces it (login, logout and a wrong code do not touch it), and it   *)
(* is gone after a successful verification.                                *)
(***************************************************************************)
PendingChanged(s) ==
    /\ session[s].pending_user # {}
    /\ session'[s].pending_user # session[s].pending_user

VerifyEndsPending(s) ==
    /\ last'.op = "verify_registration"
    /\ last'.sess = s
    /\ last'.flash \in {"verify_success", "verify_expired"}
    /\ session'[s].pending_user = {}

RegisterReplacesPending(s) ==
    /\ last'.op = "register"
    /\ last'.sess = s
    /\ last'.flash = "register_success"

VerifiedLeavesNoPending ==
    (last'.op = "verify_registration" /\ last'.flash = "verify_success")
        => session'[last'.sess].pending_user = {}

C19_PendingLifetime ==
    [][/\ \A s \in Sessions :
             PendingChanged(s) =>
                 VerifyEndsPending(s) \/ RegisterReplacesPending(s)
       /\ VerifiedLeavesNoPending]_vars

(***************************************************************************)
(* C19, amended: besides a verify request that succeeds or finds the      *)
(* record expired and a register request, a successful login of the       *)
(* session removes the pending record (it clears the session); logout, a  *)
(* failed login and a verify request with a wrong code leave it as it is. *)
(***************************************************************************)
LoginClearsPending(s) ==
    /\ last'.op = "login"
    /\ last'.sess = s
    /\ last'.flash = "login_success"
    /\ session'[s].pending_user = {}

C19_PendingKept ==
    [][/\ \A s \in Sessions :
             PendingChanged(s) =>
                 \/ VerifyEndsPending(s)
                 \/ RegisterReplacesPending(s)
                 \/ LoginClearsPending(s)
       /\ VerifiedLeavesNoPending]_vars

\* a session that holds a pending record has logged out
C19_Witness ==
    /\ last.op = "logout"
    /\ HasPending(last.sess)

(***************************************************************************)
(* C20: a login request sets the session's user_id only on a POST with    *)
(* the username of a verified User and the password of its hash; the      *)
(* session then holds that user_id and nothing else; every other login    *)
(* request leaves the session as it was; no login request changes a row.  *)
(***************************************************************************)
LoginMatches(form) ==
    { u \in users :
         /\ u.username = form.username
         /\ u.password_hash = generate_password_hash(form.password)
         /\ u.is_verified }

C20_LoginSession ==
    [][last'.op = "login" =>
          LET s == last'.sess
              form == last'.input
              granted == last'.method = "POST" /\ LoginMatches(form) # {}
          IN /\ UNCHANGED dbVars
             /\ \A other \in Sessions \ {s} : session'[other] = session[other]
             /\ granted =>
                   /\ last'.flash = "login_success"
                   /\ \E u \in LoginMatches(form) :
                         session'[s] = [user_id |-> u.id, pending_user |-> {}]
             /\ ~granted =>
                   /\ last'.flash # "login_success"
                   /\ session'[s] = session[s]]_vars

\* a login has succeeded in a session that then holds the user_id alone
C20_Witness ==
    /\ last.op = "login"
    /\ last.flash = "login_success"
    /\ session[last.sess].user_id # NoUser
    /\ session[last.sess].pending_user = {}

(***************************************************************************)
(* C21: a route wrapped in login_required, requested by a session without *)
(* user_id, redirects to login and changes no row; logout removes the     *)
(* session's user_id; no request received from a session that has no      *)
(* user_id changes a Profile, Category, Recommendation, Follow, Like or    *)
(* Comment row (a login or a verification is what gives the session a     *)
(* user_id again).                                                         *)
(***************************************************************************)
GatedOps ==
    { "dashboard_profile", "dashboard_categories", "new_category",
      "edit_category", "delete_category", "new_recommendation",
      "edit_recommendation", "delete_recommendation", "follow_user",
      "unfollow_user", "like_recommendation", "delete_comment" }

\* the step is the commit of a request that was received earlier
IsCommitStep == \E i \in Slots : txn[i] # IdleTxn /\ txn'[i] = IdleTxn

\* the step handles a request that session s sends
ReceivedFrom(s) ==
    /\ ~IsCommitStep
    /\ "sess" \in DOMAIN last'
    /\ last'.sess = s

GateStep ==
    \A s \in Sessions :
       ReceivedFrom(s) =>
          /\ last'.op = "logout" => session'[s].user_id = NoUser
          /\ session[s].user_id = NoUser =>
                /\ UNCHANGED contentVars
                /\ last'.op \in GatedOps =>
                      /\ last'.resp = "redirect_login"
                      /\ UNCHANGED <<dbVars, txn>>

C21_LoginGate == [][GateStep]_vars

\* after her logout alice asked for the deletion of her recommendation,
\* which is still there with its like and its comment
C21_Witness ==
    /\ session["s1"].user_id = NoUser
    /\ last.op = "delete_recommendation"
    /\ last.resp = "redirect_login"
    /\ \E r \in recommendations : r.id = 1
    /\ \E l \in likes : l.recommendation_id = 1
    /\ \E c \in comments : c.recommendation_id = 1

(***************************************************************************)
(* C22: a Like or Comment row is created only by a request of a session   *)
(* that has a user_id, carries that user's id, and its recommendation is  *)
(* addressed through a profile that is public when the request is         *)
(* received, through the slug of its own category; a request whose path   *)
(* names a non-public profile, a category of another profile or a         *)
(* recommendation of another category is answered 404 and creates or      *)
(* deletes no Like or Comment row (a gated route asked without user_id    *)
(* redirects to login before it looks at the path).                       *)
(***************************************************************************)
\* the path names a public profile, a category of that profile and a
\* recommendation of that category
AddressedPublicly(path) ==
    \E p \in profiles, c \in categories, r \in recommendations :
       /\ p.slug = path.profile_slug /\ p.is_public
       /\ c.profile_id = p.id /\ c.slug = path.category_slug
       /\ r.category_id = c.id /\ r.id = path.rec_id

PathOps == {"view_recommendation", "like_recommendation", "delete_comment"}

PathOfRequest(req) ==
    IF req.op = "delete_comment" THEN req.input.path ELSE req.input

PublicStep ==
    /\ \A c \in comments' \ comments :
          /\ last'.op = "view_recommendation"
          /\ session[last'.sess].user_id # NoUser
          /\ c.user_id = session[last'.sess].user_id
          /\ c.recommendation_id = last'.input.rec_id
          /\ AddressedPublicly(last'.input)
    /\ \A i \in Slots :
          (txn[i] = IdleTxn /\ txn'[i] # IdleTxn
              /\ txn'[i].op = "like_recommendation") =>
             /\ session[txn'[i].sess].user_id # NoUser
             /\ txn'[i].user_id = session[txn'[i].sess].user_id
             /\ AddressedPublicly(txn'[i].path)
    /\ \A l \in likes' \ likes :
          \E i \in Slots :
             /\ txn[i] # IdleTxn /\ txn'[i] = IdleTxn
             /\ txn[i].op = "like_recommendation"
             /\ l.user_id = txn[i].user_id
             /\ l.recommendation_id = txn[i].path.rec_id
    /\ (~IsCommitStep /\ last'.op \in PathOps) =>
          LET path == PathOfRequest(last')
              uid == session[last'.sess].user_id
          IN /\ (uid = NoUser /\ last'.op # "view_recommendation") =>
                   /\ last'.resp = "redirect_login"
                   /\ UNCHANGED <<likes, comments, txn>>
             /\ (~AddressedPublicly(path)
                    /\ (uid # NoUser \/ last'.op = "view_recommendation")) =>
                   /\ last'.resp = "404"
                   /\ UNCHANGED <<likes, comments, txn>>

C22_PublicLikesComments == [][PublicStep]_vars

\* alice commented on bob's recommendation while his profile was public; now
\* that it is not, her next comment on it is answered 404
C22_Witness ==
    /\ \E p \in profiles : p.id = BobProfile.id /\ ~p.is_public
    /\ last.op = "view_recommendation"
    /\ last.method = "POST"
    /\ last.sess = "s1"
    /\ last.input = GatePath
    /\ last.resp = "404"
    /\ \E c \in comments :
          c.id >= 4 /\ c.user_id = 1 /\ c.recommendation_id = 2

(***************************************************************************)
(* C23: a dashboard_categories request of a logged-in user with a profile *)
(* creates one Category for each name of default_category_names that the  *)
(* profile lacks, so that afterwards every default name is present, and   *)
(* the number announced in 'Added N default categories' is the number of  *)
(* rows the request created; when no default is missing it creates        *)
(* nothing and announces nothing.                                          *)
(***************************************************************************)
HasCategoryNamed(rows, pid, name) ==
    \E c \in rows : c.profile_id = pid /\ c.name = name

DefaultsStep ==
    /\ \A i \in Slots :
          (txn[i] # IdleTxn /\ txn'[i] = IdleTxn
              /\ txn[i].op = "dashboard_categories"
              /\ last'.resp # "error_500") =>
             LET pid == txn[i].profile_id
                 created == categories' \ categories
             IN /\ \A c \in created :
                      /\ c.profile_id = pid
                      /\ ~HasCategoryNamed(categories, pid, c.name)
                      /\ \E k \in DOMAIN default_category_names :
                            default_category_names[k] = c.name
                /\ \A k \in DOMAIN default_category_names :
                      HasCategoryNamed(categories', pid,
                                       default_category_names[k])
                /\ last'.flash = "added_defaults"
                /\ last'.input.announced = Cardinality(created)
    /\ (~IsCommitStep /\ last'.op = "dashboard_categories"
           /\ last'.resp = "render_categories") =>
          /\ UNCHANGED <<categories, txn>>
          /\ last'.flash = ""

C23_DefaultCategories == [][DefaultsStep]_vars

(***************************************************************************)
(* C24: a User row is created only by a verify_registration POST whose    *)
(* code is the code of the pending record the session holds at that time, *)
(* before the expiry of that record; a POST with any other code creates   *)
(* no User, does not set user_id and does not alter the pending record    *)
(* (which is dropped, as by any verify request, once it has expired).     *)
(***************************************************************************)
CodeStep ==
    /\ users' # users =>
          /\ last'.op = "verify_registration"
          /\ last'.method = "POST"
          /\ session[last'.sess].pending_user # {}
          /\ \A p \in session[last'.sess].pending_user :
                /\ last'.input = p.verification_code
                /\ now <= p.expires_at
                /\ \E u \in users' \ users :
                      /\ users' = users \cup {u}
                      /\ u.username = p.username
                      /\ u.email = p.email
    /\ (last'.op = "verify_registration" /\ last'.method = "POST") =>
          \A p \in session[last'.sess].pending_user :
             last'.input # p.verification_code =>
                /\ users' = users
                /\ session'[last'.sess].user_id = session[last'.sess].user_id
                /\ session'[last'.sess].pending_user =
                      IF now > p.expires_at THEN {} ELSE {p}

C24_NoUserWithoutCode == [][CodeStep]_vars

\* a session posted the code that another session was sent for the same
\* registration data: no User exists and its own pending record is as before
C24_Witness ==
    /\ last.op = "verify_registration"
    /\ last.method = "POST"
    /\ last.flash = "verify_invalid_code"
    /\ users = {}
    /\ \E s \in AuthSessions :
          /\ s # last.sess
          /\ \E p \in session[s].pending_user, q \in session[last.sess].pending_user :
                /\ p.verification_code = last.input
                /\ q.verification_code # last.input
                /\ q.username = p.username
    /\ session[last.sess].user_id = NoUser

(***************************************************************************)
(* C25: the profile that owns a Recommendation through its category is    *)
(* the profile of the user who created it and never changes;              *)
(* new_recommendation and edit_recommendation accept a category_id only   *)
(* of a category of the acting user's own profile.                        *)
(***************************************************************************)
\* the profiles that own recommendation rec_id through its category
ProfilesOfRec(recs, cats, rec_id) ==
    { c.profile_id : c \in { x \in cats : \E r \in recs :
                                r.id = rec_id /\ r.category_id = x.id } }

\* the users of the profile of category category_id
UsersOfCategory(category_id) ==
    { p.user_id : p \in { x \in profiles : \E c \in categories :
                             c.id = category_id /\ c.profile_id = x.id } }

RecOwnerStep ==
    \* a recommendation that stays stays under the same profile
    /\ \A r \in recommendations :
          (\E q \in recommendations' : q.id = r.id) =>
             ProfilesOfRec(recommendations', categories', r.id)
                = ProfilesOfRec(recommendations, categories, r.id)
    \* a request is taken on only with a category of the session user
    /\ \A i \in Slots :
          (txn[i] = IdleTxn /\ txn'[i] # IdleTxn
              /\ txn'[i].op = "new_recommendation") =>
             UsersOfCategory(txn'[i].form.category_id)
                = {session[txn'[i].sess].user_id}
    \* a new recommendation is under a profile of the user who sent it
    /\ \A q \in recommendations' :
          (\A r \in recommendations : r.id # q.id) =>
             \E i \in Slots :
                /\ txn[i] # IdleTxn /\ txn'[i] = IdleTxn
                /\ txn[i].op = "new_recommendation"
                /\ UsersOfCategory(q.category_id)
                      = {session[txn[i].sess].user_id}
    \* an edit changes a recommendation of the session user only, and moves
    \* it only to a category of that user
    /\ \A q \in recommendations' :
          (q \notin recommendations
              /\ \E r \in recommendations : r.id = q.id) =>
             /\ last'.op = "edit_recommendation"
             /\ last'.input = q.id
             /\ UsersOfCategory(q.category_id) = {session[last'.sess].user_id}

C25_RecommendationOwner == [][RecOwnerStep]_vars

\* bob moved his recommendation 2 from Books to Food, and alice's new
\* recommendation for bob's category Books was turned down by the form
C25_Witness ==
    /\ \E r \in recommendations : r.id = 2 /\ r.category_id = 9
    /\ last.op = "new_recommendation"
    /\ last.sess = "s1"
    /\ last.input.category_id = 7
    /\ last.input.title = "Emma"
    /\ last.resp = "render_rec_form"
    /\ \E c \in categories : c.id = 7

(***************************************************************************)
(* C26: like_recommendation by user u on recommendation r adds u's Like   *)
(* row if it is absent and deletes it if it is present, and touches no    *)
(* other row: the set of (user, recommendation) pairs changes by exactly  *)
(* the pair (u, r), so that a second request restores it.  The answer     *)
(* says 'liked' exactly when the row was added, like_count is the number  *)
(* of Like rows of r after the request, and is_liked tells whether u's    *)
(* row exists after the request.  The toggle is stated of a request whose *)
(* read of u's row is still true when it commits; overlapping requests of *)
(* one user are the matter of C10.                                         *)
(***************************************************************************)
LikePairs(rows) == { <<l.user_id, l.recommendation_id>> : l \in rows }

\* what the request read about u's row still holds
ReadIsCurrent(t) ==
    IF t.action = "liked"
    THEN LikesOfPair(likes, t.user_id, t.path.rec_id) = {}
    ELSE \E l \in LikesOfPair(likes, t.user_id, t.path.rec_id) :
            l.id = t.like_id

ToggleStep ==
    \A i \in Slots :
       (txn[i] # IdleTxn /\ txn'[i] = IdleTxn
           /\ txn[i].op = "like_recommendation"
           /\ last'.resp = "json_200") =>
          LET u == txn[i].user_id
              r == txn[i].path.rec_id
              pair == <<u, r>>
              body == last'.body
          IN /\ { l \in likes' : <<l.user_id, l.recommendation_id>> # pair }
                   = { l \in likes : <<l.user_id, l.recommendation_id>> # pair }
             /\ ReadIsCurrent(txn[i]) =>
                   /\ LikePairs(likes') =
                         (LikePairs(likes) \ {pair})
                            \cup ({pair} \ LikePairs(likes))
                   /\ Cardinality(LikesOfPair(likes', u, r)) <= 1
             /\ body.action \in {"liked", "unliked"}
             /\ body.action = "liked" <=>
                   LikesOfPair(likes', u, r) \ likes # {}
             /\ body.like_count =
                   Cardinality({ l \in likes' : l.recommendation_id = r })
             /\ body.is_liked = (LikesOfPair(likes', u, r) # {})

C26_LikeToggle == [][ToggleStep]_vars

\* alice liked bob's recommendation 2 and then took her like back: the pairs
\* are those of the start, and the answer counts the one like that is left
C26_Witness ==
    /\ last.op = "like_recommendation"
    /\ last.resp = "json_200"
    /\ last.sess = "s1"
    /\ last.input.rec_id = 2
    /\ last.body = [action |-> "unliked", like_count |-> 1,
                    is_liked |-> FALSE]
    /\ nextId.likes > 4
    /\ LikePairs(likes) = LikePairs(ContentLikes)

(***************************************************************************)
(* C27: for every tags value the application can produce and every tag    *)
(* text t, after remove_tag(t) without a tag type has_tag(t) is false and *)
(* get_tags() does not contain slugify(t), while every other slug is in   *)
(* the lists it was in before; with a tag type the slug is absent from    *)
(* the list of that type.                                                  *)
(***************************************************************************)
SlugsOf(tags, key) == Range(TagList(tags, key))

RemoveTagStep ==
    (last'.op = "remove_tag_from_recommendation" /\ last'.resp = "200") =>
       LET data == last'.input[2]
           t == Strip(data.tag)
           slug == models_slugify(t)
           before == TagsOfRec(recommendations, last'.input[1])
           after == TagsOfRec(recommendations', last'.input[1])
       IN /\ last'.body = get_tags(after)
          /\ \A key \in TagKeys :
                SlugsOf(after, key) \ {slug} = SlugsOf(before, key) \ {slug}
          /\ IF "type" \notin DOMAIN data
             THEN /\ ~has_tag(after, t)
                  /\ slug \notin Range(get_tags(after))
             ELSE slug \notin SlugsOf(after, IF data.type = "category"
                                             THEN "categories"
                                             ELSE "collections")

C27_RemoveTag == [][RemoveTagStep]_vars

(***************************************************************************)
(* C28.  No self-follow: no Follow row has follower_id = followed_id, and  *)
(* a follow_user request whose target is the session user's own id adds    *)
(* no row.                                                                 *)
(***************************************************************************)
SelfFollows == { f \in follows : f.follower_id = f.followed_id }

SelfFollowStep ==
    (/\ last'.op = "follow_user"
     /\ session[last'.sess].user_id # 0
     /\ last'.input.user_id = session[last'.sess].user_id)
       => follows' = follows

C28_NoSelfFollow == [](SelfFollows = {}) /\ [][SelfFollowStep]_vars

(***************************************************************************)
(* C29.  Every follow_user or unfollow_user request of a logged-in user on *)
(* an existing target user ends with a redirect, with or without a         *)
(* Referer; a request that ends in a server error leaves the Follow table  *)
(* as it was.                                                              *)
(***************************************************************************)
FollowOps == {"follow_user", "unfollow_user"}

FollowAnswered ==
    /\ last'.op \in FollowOps
    /\ last'.resp # "in_flight"
    /\ session[last'.sess].user_id # 0
    /\ \E u \in users : u.id = last'.input.user_id

FollowRedirectStep ==
    FollowAnswered =>
       /\ last'.resp \in {"redirect_referrer", "redirect_index"}
          \/ (last'.resp = "error_500" /\ follows' = follows)
       /\ ~last'.input.has_referrer => last'.resp # "error_500"

C29_FollowRedirects == [][FollowRedirectStep]_vars

(***************************************************************************)
(* C30.  A dashboard_profile submission of a user who has a profile        *)
(* changes at most the name and the visibility flag of that profile: its   *)
(* slug and user_id stay, even when the name changes, no Profile and no    *)
(* Category is created and no other row changes.  edit_category computes   *)
(* a new slug exactly when the submitted name differs from the stored      *)
(* name, and keeps the stored slug otherwise.                              *)
(***************************************************************************)
ProfileEditStep ==
    (/\ last'.op = "dashboard_profile"
     /\ ~IsCommitStep
     /\ \E p \in profiles : p.user_id = session[last'.sess].user_id)
       => /\ UNCHANGED <<users, categories, recommendations, follows, likes,
                         comments, nextId, txn>>
          /\ \E p \in profiles :
                /\ p.user_id = session[last'.sess].user_id
                /\ \E q \in profiles' :
                      /\ profiles' = (profiles \ {p}) \cup {q}
                      /\ q.id = p.id
                      /\ q.slug = p.slug
                      /\ q.user_id = p.user_id
                      /\ \/ q = p
                         \/ /\ last'.method = "POST"
                            /\ q.name = last'.input.name
                            /\ q.is_public = last'.input.is_public

\* the edit_category request that slot i takes on in this step
CategoryEditRead(i) ==
    (txn[i] = IdleTxn /\ txn'[i] # IdleTxn /\ txn'[i].op = "edit_category")
       => \E category \in categories :
             LET t == txn'[i]
                 differs == category.name # t.name
                 taken == { c.slug : c \in { x \in categories :
                               /\ x.profile_id = category.profile_id
                               /\ x.id # category.id } }
             IN /\ category.id = t.category_id
                /\ t.slug = IF differs THEN UniqueSlug(t.name, taken)
                                       ELSE category.slug
                /\ t.renamed = differs

\* the commit of the edit_category request in slot i
CategoryEditCommit(i) ==
    (txn[i] # IdleTxn /\ txn'[i] = IdleTxn /\ txn[i].op = "edit_category")
       => LET t == txn[i]
          IN \A old \in categories :
                \/ old \in categories'
                \/ /\ old.id = t.category_id
                   /\ t.renamed
                   /\ categories' = (categories \ {old}) \cup
                         {[old EXCEPT !.name = t.name, !.slug = t.slug]}

CategoryEditStep ==
    /\ \A i \in Slots : CategoryEditRead(i) /\ CategoryEditCommit(i)
    /\ { c.id : c \in categories' } = { c.id : c \in categories }
          \/ last'.op \notin {"edit_category"}

C30_ProfileEditFrame == [][ProfileEditStep /\ CategoryEditStep]_vars

\* alice renamed her profile after renaming her category Books: the category
\* has the slug of its new name, the profile still the slug of its first
C30_Witness ==
    /\ last.op = "dashboard_profile"
    /\ last.sess = "s1"
    /\ last.resp = "redirect_dashboard_profile"
    /\ \E p \in profiles : /\ p.user_id = 1
                           /\ p.name = Str_bo_1
                           /\ p.slug = slugify(Str_Bo)
    /\ \E c \in categories : /\ c.profile_id = 1
                             /\ c.name = Str_books_1
                             /\ c.slug = slugify(Str_books_1)
    /\ Cardinality(profiles) = 3

====
